---------------------------- MODULE Spec2Model ----------------------------
(***************************************************************************)
(* Verification model of the GoSniffer forward proxy (go-mitmproxy).       *)
(*                                                                         *)
(* Specifications of this module:                                         *)
(*   Spec       the shutdown world: ProxyServer.Start / Shutdown, the      *)
(*              net/http server shutdown goroutine, the accept loop with   *)
(*              its connection handlers and the ShutdownCoordinator        *)
(*              (registry, drain counter, cancellation token, timers).     *)
(*   SpecCoord  the ShutdownCoordinator alone, driven through its exported *)
(*              operations.                                                *)
(*   SpecDrain  ProxyServer.Shutdown over a coordinator that has           *)
(*              registered transports.                                     *)
(*   SpecRelay  the data path of one accepted connection: handleHTTP       *)
(*              dispatch, HandleHTTPRequest, HandleCONNECT and the relay   *)
(*              loops of mitm.go, with the headers each request carries.   *)
(* Time is a discrete clock (seconds); a step of code takes no time, time  *)
(* passes only while every task is blocked or idle.                        *)
(***************************************************************************)
EXTENDS Integers, Sequences, FiniteSets, TLC

\* ------------------------------------------------------------------ bounds
MaxConns    == 2   \* transports registered through TrackConnection
MaxHandlers == 2   \* connections the accept loop hands to handleHTTP
MaxTimeout  == 2   \* largest timeout argument of Shutdown, in seconds

\* ------------------------------------------------------- program constants
GraceSeconds == 1  \* time.After(1 * time.Second) after the force-close

MaxTime  == MaxTimeout + GraceSeconds + 1   \* horizon of the clock
Timeouts == 0..MaxTimeout
Conns    == 1..MaxConns
Handlers == 1..MaxHandlers
ConnIDs  == {"A", "B"}      \* "remote->local" strings of the transports
NoConn   == 0
NoID     == "-"
MuFree     == NoConn          \* sc.connMu is not held
MuShutdown == MaxConns + 1    \* sc.connMu is held by Shutdown's force-close

VARIABLES
    \* ---- clock
    now,
    \* ---- ShutdownCoordinator (shutdown.go)
    shuttingDown,   \* sc.shuttingDown
    cancelled,      \* sc.ctx is cancelled
    connections,    \* sc.connections : connID -> transport (NoConn = absent)
    wg,             \* counter of sc.wg
    connMu,         \* holder of sc.connMu: MuFree, MuShutdown or a transport
    done,           \* the channel 'done' of Shutdown is closed
    waiter,         \* goroutine wg.Wait(); close(done): "none","waiting","exited"
    scPc,           \* position of the task inside ShutdownCoordinator.Shutdown
    scTimeout,      \* its timeout argument
    scTimer,        \* expiry instant of the pending time.After
    scCallTime,     \* instant Shutdown was entered
    scResult,       \* "none", "nil", "err"
    closedConns,    \* transports on which Close() was called by the force-close
    atTimeout,      \* transports that were registered when the drain timer fired
    rpc,            \* per transport: "idle","locking","tracked","unlocking","exited"
    connAddr,       \* per transport: the connID it yields (NoID before it exists)
    \* ---- ProxyServer (server.go)
    running,        \* p.running
    serverSet,      \* p.server # nil
    startPc,        \* position inside Start
    startResult,    \* "none","nil","err"
    listener,       \* "none","open","closed"
    inShutdown,     \* http.Server was told to shut down
    psPc,           \* position inside ProxyServer.Shutdown
    psTimeout,
    psCallTime,
    psResult,       \* "none","nil","err"
    ctxDeadline,    \* deadline of context.WithTimeout (-1 = not created)
    ctxCancelled,   \* deferred cancel() ran
    srvPc,          \* goroutine p.server.Shutdown(ctx): "none","spawned","polling","returned"
    srvResult,      \* "none","nil","err"
    crashed,        \* the process died on a nil dereference
    hkind,          \* per handler: "none","http","connect"
    hpc,            \* per handler: "none","forward","copy","tunnel","done"
    inflightAtCall, \* handlers in flight when ProxyServer.Shutdown was called
    \* ---- one connection through handleHTTP (handler.go, mitm.go)
    mitmEnabled,    \* p.mitmHandler # nil
    pc,             \* the blocking operation the handler is in
    cur,            \* headers of the request in hand, as handed to the writer
    curRaw,         \* headers of the request in hand, as the client sent them
    curId,          \* its position in the client's wire order (0 = none)
    lastFwd,        \* headers of the request last written upstream
    fwd,            \* <<id, path>> of every request written upstream, in order
    nRead,          \* requests parsed from the client stream so far
    nRespWritten,   \* responses completely written to the client so far
    certState,      \* "none","hit","minted","failed"
    clientTLS,      \* "none","ok","failed"
    upstream,       \* "none","verified","failed"
    respStatus,     \* status of the upstream response in hand (0 = none)
    proxyStatus,    \* status the proxy itself answered with (0 = none)
    copyUp,         \* io.Copy(upstreamConn, clientConn): "none","running","ended","done"
    copyDown,       \* io.Copy(clientConn, upstreamConn): "none","running","ended","done"
    rHost,          \* r.Host of the CONNECT: <<host, port>>, <<host>> or <<>>
    clientConn,     \* the hijacked client transport: "none","open","closed"
    upstreamConn,   \* the dialled upstream transport: "none","open","closed"
    hsErr,          \* the error clientTLS.Handshake returned ("none" = it has not failed)
    wsDone,         \* values buffered in the channel done of the tunnel
    mitmLog,        \* <<kind, name>> of every record the MITM handler logged, in order
    upErr,          \* how the upstream request of forwardRequest failed ("none" = it did not)
    obtained,       \* <<id, status>> of every upstream response status read, in order
    reqLog,         \* <<id, status>> of every LogRequest record, in order
    \* ---- CertificateCache and the handlers that use it (cache.go, mitm.go)
    cache,          \* c.cache : hostname -> bundle (NoBundle = absent)
    lruList,        \* c.lruList : hostnames, least recently used first
    stopChan,       \* c.stopChan is closed
    sweeper,        \* goroutine cleanupExpired: "waiting","exited"
    nextSweep,      \* instant of the next tick of its ticker
    cpc,            \* per handler: "idle","mint","put","ready"
    chost,          \* per handler: the host of its CONNECT
    ccert,          \* per handler: the bundle in hand
    useOrder,       \* cached hostnames by their last successful get or put, oldest first
    nconn,          \* CONNECT requests that reached the certificate step so far
    evicted,        \* per handler: the hostname its Put evicted, NoHost if none
    \* ---- the log sink (logger.go, cert.go)
    sink,           \* records handed to log.Printf, in order
    sanIn,          \* the hostname argument of FormatLogEntry
    sanOut,         \* the hostname field of its result (NotRun before the call)
    \* ---- the guard of the cache and the caller of Stop (cache.go)
    mu,             \* c.mu: [w |-> writer, q |-> blocked in Lock, r |-> readers, rq |-> blocked in RLock]
    stopPc,         \* the task calling Stop: "none","waiting","returned"
    stop2,          \* a further caller of Stop or StopWithContext: "none","closed","panicked"
    \* ---- the root CA and the leaf keys (ca.go, cert.go, main.go)
    caIn,           \* what initializeCA finds: the CA files and the -ca-key-type flag
    caPc,           \* "init", "ready" (a CA was returned), "failed" (an error was)
    rootCA,         \* CA.PrivateKey (NoKey = no CA)
    leafKey         \* CertificateBundle.PrivateKey of the last leaf minted (NoKey = none)

coordVars == <<shuttingDown, cancelled, connections, wg, connMu, done, waiter,
               scPc, scTimeout, scTimer, scCallTime, scResult, closedConns, atTimeout,
               rpc, connAddr>>
serverVars == <<running, serverSet, startPc, startResult, listener, inShutdown,
                psPc, psTimeout, psCallTime, psResult, ctxDeadline,
                ctxCancelled, srvPc, srvResult, crashed, hkind, hpc,
                inflightAtCall>>

auditVars == <<upErr, obtained, reqLog>>

tunnelVars == <<rHost, clientConn, upstreamConn, hsErr, wsDone, mitmLog>>

relayVars == <<mitmEnabled, pc, cur, curRaw, curId, lastFwd, fwd, nRead, nRespWritten,
               certState, clientTLS, upstream, respStatus, proxyStatus,
               copyUp, copyDown, tunnelVars, auditVars>>

cacheVars == <<cache, lruList, stopChan, sweeper, nextSweep, nconn, cpc, chost,
               ccert, useOrder, evicted>>

logVars == <<sink, sanIn, sanOut>>

guardVars == <<mu, stopPc, stop2>>

caVars == <<caIn, caPc, rootCA, leafKey>>

vars == <<now, coordVars, serverVars, relayVars, cacheVars, logVars, caVars, guardVars>>

\* ===================================================================
\*                        ShutdownCoordinator
\* ===================================================================

\* NewShutdownCoordinator: empty registry, live context, flag clear.
CoordInit ==
    /\ shuttingDown = FALSE
    /\ cancelled = FALSE
    /\ connections = [id \in ConnIDs |-> NoConn]
    /\ wg = 0
    /\ connMu = MuFree
    /\ done = FALSE
    /\ waiter = "none"
    /\ scPc = "idle"
    /\ scTimeout = 0
    /\ scTimer = 0
    /\ scCallTime = 0
    /\ scResult = "none"
    /\ closedConns = {}
    /\ atTimeout = {}
    /\ rpc = [c \in Conns |-> "idle"]
    /\ connAddr = [c \in Conns |-> NoID]

\* len(sc.connections)
GetActiveConnectionCount ==
    Cardinality({id \in ConnIDs : connections[id] # NoConn})

\* IsShuttingDown
IsShuttingDown == shuttingDown

\* TrackConnection, first half: sc.connMu.Lock().  The transport's
\* endpoints (hence its connID) are an input.
TrackConnectionLock(c) ==
    /\ ~crashed
    /\ rpc[c] = "idle"
    /\ connMu = MuFree
    /\ \E id \in ConnIDs : connAddr' = [connAddr EXCEPT ![c] = id]
    /\ connMu' = c
    /\ rpc' = [rpc EXCEPT ![c] = "locking"]
    /\ UNCHANGED <<shuttingDown, cancelled, connections, wg, done, waiter,
                   scPc, scTimeout, scTimer, scCallTime, scResult, closedConns, atTimeout>>
    /\ UNCHANGED <<now, serverVars, relayVars, cacheVars, logVars, caVars, guardVars>>

\* TrackConnection, second half: store under connID, wg.Add(1), unlock.
TrackConnection(c) ==
    /\ ~crashed
    /\ rpc[c] = "locking"
    /\ connMu = c
    /\ connections' = [connections EXCEPT ![connAddr[c]] = c]
    /\ wg' = wg + 1
    /\ connMu' = MuFree
    /\ rpc' = [rpc EXCEPT ![c] = "tracked"]
    /\ UNCHANGED <<shuttingDown, cancelled, done, waiter, scPc, scTimeout,
                   scTimer, scCallTime, scResult, closedConns, atTimeout, connAddr>>
    /\ UNCHANGED <<now, serverVars, relayVars, cacheVars, logVars, caVars, guardVars>>

\* UntrackConnection, first half: sc.connMu.Lock().
UntrackConnectionLock(c) ==
    /\ ~crashed
    /\ rpc[c] = "tracked"
    /\ connMu = MuFree
    /\ connMu' = c
    /\ rpc' = [rpc EXCEPT ![c] = "unlocking"]
    /\ UNCHANGED <<shuttingDown, cancelled, connections, wg, done, waiter,
                   scPc, scTimeout, scTimer, scCallTime, scResult, closedConns, atTimeout,
                   connAddr>>
    /\ UNCHANGED <<now, serverVars, relayVars, cacheVars, logVars, caVars, guardVars>>

\* UntrackConnection, second half: delete(connID), wg.Done(), unlock.
UntrackConnection(c) ==
    /\ ~crashed
    /\ rpc[c] = "unlocking"
    /\ connMu = c
    /\ connections' = [connections EXCEPT ![connAddr[c]] = NoConn]
    /\ wg' = wg - 1
    /\ connMu' = MuFree
    /\ rpc' = [rpc EXCEPT ![c] = "exited"]
    /\ UNCHANGED <<shuttingDown, cancelled, done, waiter, scPc, scTimeout,
                   scTimer, scCallTime, scResult, closedConns, atTimeout, connAddr>>
    /\ UNCHANGED <<now, serverVars, relayVars, cacheVars, logVars, caVars, guardVars>>

\* Entry of ShutdownCoordinator.Shutdown(t).
CoordEnter(t) ==
    /\ scPc = "idle"
    /\ scPc' = "called"
    /\ scTimeout' = t
    /\ scCallTime' = now

\* Shutdown lines 90-92: mark as shutting down.
CoordSetShuttingDown ==
    /\ ~crashed
    /\ scPc = "called"
    /\ shuttingDown' = TRUE
    /\ scPc' = "flagged"
    /\ UNCHANGED <<cancelled, connections, wg, connMu, done, waiter, scTimeout,
                   scTimer, scCallTime, scResult, closedConns, atTimeout, rpc, connAddr>>
    /\ UNCHANGED <<now, serverVars, relayVars, cacheVars, logVars, caVars, guardVars>>

\* Shutdown line 97: sc.cancel().
CoordCancel ==
    /\ ~crashed
    /\ scPc = "flagged"
    /\ cancelled' = TRUE
    /\ scPc' = "drain"
    /\ UNCHANGED <<shuttingDown, connections, wg, connMu, done, waiter,
                   scTimeout, scTimer, scCallTime, scResult, closedConns, atTimeout, rpc,
                   connAddr>>
    /\ UNCHANGED <<now, serverVars, relayVars, cacheVars, logVars, caVars, guardVars>>

\* Expiry of time.After(timeout) armed at instant t (line 112).
DrainDeadline_Immediate(t, timeout) == t

DrainDeadline(t, timeout) == t + timeout

\* Shutdown lines 100-106,112: start the waiter goroutine, arm time.After(timeout).
CoordStartDrain ==
    /\ ~crashed
    /\ scPc = "drain"
    /\ waiter' = "waiting"
    /\ scTimer' = DrainDeadline(now, scTimeout)
    /\ scPc' = "select1"
    /\ UNCHANGED <<shuttingDown, cancelled, connections, wg, connMu, done,
                   scTimeout, scCallTime, scResult, closedConns, atTimeout, rpc, connAddr>>
    /\ UNCHANGED <<now, serverVars, relayVars, cacheVars, logVars, caVars, guardVars>>

\* The goroutine of lines 101-104: wg.Wait() returns at counter zero, close(done).
WaiterCloseDone ==
    /\ ~crashed
    /\ waiter = "waiting"
    /\ wg = 0
    /\ done' = TRUE
    /\ waiter' = "exited"
    /\ UNCHANGED <<shuttingDown, cancelled, connections, wg, connMu, scPc,
                   scTimeout, scTimer, scCallTime, scResult, closedConns, atTimeout, rpc,
                   connAddr>>
    /\ UNCHANGED <<now, serverVars, relayVars, cacheVars, logVars, caVars, guardVars>>

\* Shutdown lines 107-110: case <-done of the first select.
CoordDrained ==
    /\ ~crashed
    /\ scPc = "select1"
    /\ done
    /\ scResult' = "nil"
    /\ scPc' = "returned"
    /\ UNCHANGED <<shuttingDown, cancelled, connections, wg, connMu, done,
                   waiter, scTimeout, scTimer, scCallTime, closedConns, atTimeout, rpc,
                   connAddr>>
    /\ UNCHANGED <<now, serverVars, relayVars, cacheVars, logVars, caVars, guardVars>>

\* Shutdown lines 112-114: case <-time.After(timeout) of the first select.
CoordTimeout ==
    /\ ~crashed
    /\ scPc = "select1"
    /\ now >= scTimer
    /\ scPc' = "forceLock"
    /\ atTimeout' = {connections[id] : id \in {i \in ConnIDs : connections[i] # NoConn}}
    /\ UNCHANGED <<shuttingDown, cancelled, connections, wg, connMu, done,
                   waiter, scTimeout, scTimer, scCallTime, scResult,
                   closedConns, rpc, connAddr>>
    /\ UNCHANGED <<now, serverVars, relayVars, cacheVars, logVars, caVars, guardVars>>

\* Shutdown line 117: sc.connMu.Lock().
CoordForceLock ==
    /\ ~crashed
    /\ scPc = "forceLock"
    /\ connMu = MuFree
    /\ connMu' = MuShutdown
    /\ scPc' = "forcing"
    /\ UNCHANGED <<shuttingDown, cancelled, connections, wg, done, waiter,
                   scTimeout, scTimer, scCallTime, scResult, closedConns, atTimeout, rpc,
                   connAddr>>
    /\ UNCHANGED <<now, serverVars, relayVars, cacheVars, logVars, caVars, guardVars>>

\* Expiry of the grace timer armed at instant t (line 131).
GraceDeadline_TwoSeconds(t) == t + GraceSeconds + 1

GraceDeadline(t) == t + GraceSeconds

\* The transports found by 'for connID, conn := range sc.connections' (line 119).
RemainingConnections_None == {}

RemainingConnections ==
    {connections[id] : id \in {i \in ConnIDs : connections[i] # NoConn}}

\* Shutdown lines 118-131: Close() every registered transport, unlock,
\* arm the one second grace timer.
CoordForceClose ==
    /\ ~crashed
    /\ scPc = "forcing"
    /\ connMu = MuShutdown
    /\ closedConns' = closedConns \cup RemainingConnections
    /\ connMu' = MuFree
    /\ scTimer' = GraceDeadline(now)
    /\ scPc' = "select2"
    /\ UNCHANGED <<shuttingDown, cancelled, connections, wg, done, waiter,
                   scTimeout, scCallTime, scResult, atTimeout, rpc, connAddr>>
    /\ UNCHANGED <<now, serverVars, relayVars, cacheVars, logVars, caVars, guardVars>>

\* Shutdown lines 129-130: case <-done of the second select.
CoordGraceDrained ==
    /\ ~crashed
    /\ scPc = "select2"
    /\ done
    /\ scResult' = "nil"
    /\ scPc' = "returned"
    /\ UNCHANGED <<shuttingDown, cancelled, connections, wg, connMu, done,
                   waiter, scTimeout, scTimer, scCallTime, closedConns, atTimeout, rpc,
                   connAddr>>
    /\ UNCHANGED <<now, serverVars, relayVars, cacheVars, logVars, caVars, guardVars>>

\* Shutdown lines 131-132: the grace expires, return the error.
CoordGraceTimeout ==
    /\ ~crashed
    /\ scPc = "select2"
    /\ now >= scTimer
    /\ scResult' = "err"
    /\ scPc' = "returned"
    /\ UNCHANGED <<shuttingDown, cancelled, connections, wg, connMu, done,
                   waiter, scTimeout, scTimer, scCallTime, closedConns, atTimeout, rpc,
                   connAddr>>
    /\ UNCHANGED <<now, serverVars, relayVars, cacheVars, logVars, caVars, guardVars>>

\* A task of the coordinator world can take a step right now (code runs,
\* the clock waits): a held lock, a runnable goroutine, an expired timer.
CoordBusy ==
    \/ scPc \in {"called", "flagged", "drain", "forceLock", "forcing"}
    \/ connMu # MuFree
    \/ (waiter = "waiting" /\ wg = 0)
    \/ (scPc \in {"select1", "select2"} /\ (done \/ now >= scTimer))


\* Direct call of ShutdownCoordinator.Shutdown(t) by a user of the coordinator.
CoordShutdownCall ==
    /\ ~crashed
    /\ \E t \in Timeouts : (now + t + GraceSeconds <= MaxTime /\ CoordEnter(t))
    /\ UNCHANGED <<shuttingDown, cancelled, connections, wg, connMu, done,
                   waiter, scTimer, scResult, closedConns, atTimeout, rpc, connAddr>>
    /\ UNCHANGED <<now, serverVars, relayVars, cacheVars, logVars, caVars, guardVars>>

\* ===================================================================
\*                            ProxyServer
\* ===================================================================

\* NewProxyServer / NewProxyServerWithMITM: not running, no http.Server yet.
ServerInit ==
    /\ running = FALSE
    /\ serverSet = FALSE
    /\ startPc = "idle"
    /\ startResult = "none"
    /\ listener = "none"
    /\ inShutdown = FALSE
    /\ psPc = "idle"
    /\ psTimeout = 0
    /\ psCallTime = 0
    /\ psResult = "none"
    /\ ctxDeadline = -1
    /\ ctxCancelled = FALSE
    /\ srvPc = "none"
    /\ srvResult = "none"
    /\ crashed = FALSE
    /\ hkind = [h \in Handlers |-> "none"]
    /\ hpc = [h \in Handlers |-> "none"]
    /\ inflightAtCall = {}

\* Handlers that were accepted and have not returned.
InFlight == {h \in Handlers : hpc[h] \notin {"none", "done"}}

\* Start lines 189-195: the 'running' check and set, under p.mu.
StartBegin ==
    /\ ~crashed
    /\ startPc = "idle"
    /\ IF running
         THEN /\ startResult' = "err"
              /\ startPc' = "returned"
              /\ UNCHANGED running
         ELSE /\ running' = TRUE
              /\ startPc' = "flagged"
              /\ UNCHANGED startResult
    /\ UNCHANGED <<serverSet, listener, inShutdown, psPc, psTimeout, psCallTime,
                   psResult, ctxDeadline, ctxCancelled, srvPc, srvResult,
                   crashed, hkind, hpc, inflightAtCall>>
    /\ UNCHANGED <<now, coordVars, relayVars, cacheVars, logVars, caVars, guardVars>>

\* Start lines 201-214: p.server = &http.Server{...}.
StartCreateServer ==
    /\ ~crashed
    /\ startPc = "flagged"
    /\ serverSet' = TRUE
    /\ startPc' = "created"
    /\ UNCHANGED <<running, startResult, listener, inShutdown, psPc, psTimeout,
                   psCallTime, psResult, ctxDeadline, ctxCancelled, srvPc,
                   srvResult, crashed, hkind, hpc, inflightAtCall>>
    /\ UNCHANGED <<now, coordVars, relayVars, cacheVars, logVars, caVars, guardVars>>

\* Start lines 217-221: ListenAndServe.  A server already told to shut down
\* answers ErrServerClosed (Start returns nil); binding the address may fail
\* (Start returns the error); otherwise the listener is open and serving.
StartListen ==
    /\ ~crashed
    /\ startPc = "created"
    /\ \/ /\ inShutdown
          /\ startResult' = "nil"
          /\ startPc' = "returned"
          /\ UNCHANGED listener
       \/ /\ ~inShutdown
          /\ startResult' = "err"
          /\ startPc' = "returned"
          /\ UNCHANGED listener
       \/ /\ ~inShutdown
          /\ listener' = "open"
          /\ startPc' = "serving"
          /\ UNCHANGED startResult
    /\ UNCHANGED <<running, serverSet, inShutdown, psPc, psTimeout, psCallTime,
                   psResult, ctxDeadline, ctxCancelled, srvPc, srvResult,
                   crashed, hkind, hpc, inflightAtCall>>
    /\ UNCHANGED <<now, coordVars, relayVars, cacheVars, logVars, caVars, guardVars>>

\* Start lines 217-221: Serve returns ErrServerClosed once the listener is
\* closed, Start returns nil.
StartServeReturn ==
    /\ ~crashed
    /\ startPc = "serving"
    /\ listener = "closed"
    /\ startResult' = "nil"
    /\ startPc' = "returned"
    /\ UNCHANGED <<running, serverSet, listener, inShutdown, psPc, psTimeout,
                   psCallTime, psResult, ctxDeadline, ctxCancelled, srvPc,
                   srvResult, crashed, hkind, hpc, inflightAtCall>>
    /\ UNCHANGED <<now, coordVars, relayVars, cacheVars, logVars, caVars, guardVars>>

\* The accept loop of ListenAndServe hands a new connection to handleHTTP,
\* which dispatches on the method: CONNECT to HandleCONNECT, anything else
\* to HandleHTTPRequest.  Neither handler registers with the coordinator.
Accept(h) ==
    /\ ~crashed
    /\ listener = "open"
    /\ hpc[h] = "none"
    /\ \E k \in {"http", "connect"} :
          /\ hkind' = [hkind EXCEPT ![h] = k]
          /\ hpc' = [hpc EXCEPT ![h] = IF k = "http" THEN "forward" ELSE "tunnel"]
    /\ UNCHANGED <<running, serverSet, startPc, startResult, listener,
                   inShutdown, psPc, psTimeout, psCallTime, psResult,
                   ctxDeadline, ctxCancelled, srvPc, srvResult, crashed,
                   inflightAtCall>>
    /\ UNCHANGED <<now, coordVars, relayVars, cacheVars, logVars, caVars, guardVars>>

\* HandleHTTPRequest: client.Do answers (or fails, 502), then io.Copy ends.
\* The handler never reads the coordinator's token or flag.
HTTPHandlerStep(h) ==
    /\ ~crashed
    /\ hkind[h] = "http"
    /\ \/ /\ hpc[h] = "forward"
          /\ \E nxt \in {"copy", "done"} : hpc' = [hpc EXCEPT ![h] = nxt]
       \/ /\ hpc[h] = "copy"
          /\ hpc' = [hpc EXCEPT ![h] = "done"]
    /\ UNCHANGED <<running, serverSet, startPc, startResult, listener,
                   inShutdown, psPc, psTimeout, psCallTime, psResult,
                   ctxDeadline, ctxCancelled, srvPc, srvResult, crashed,
                   hkind, inflightAtCall>>
    /\ UNCHANGED <<now, coordVars, relayVars, cacheVars, logVars, caVars, guardVars>>

\* HandleCONNECT: the hijacked tunnel ends (any of its return statements).
\* The handler never reads the coordinator's token or flag.
CONNECTHandlerStep(h) ==
    /\ ~crashed
    /\ hkind[h] = "connect"
    /\ hpc[h] = "tunnel"
    /\ hpc' = [hpc EXCEPT ![h] = "done"]
    /\ UNCHANGED <<running, serverSet, startPc, startResult, listener,
                   inShutdown, psPc, psTimeout, psCallTime, psResult,
                   ctxDeadline, ctxCancelled, srvPc, srvResult, crashed,
                   hkind, inflightAtCall>>
    /\ UNCHANGED <<now, coordVars, relayVars, cacheVars, logVars, caVars, guardVars>>

\* ProxyServer.Shutdown lines 227-234: the 'running' check under p.mu.
ProxyServerShutdownCheck ==
    /\ ~crashed
    /\ psPc = "idle"
    /\ \E t \in Timeouts :
          /\ now + t + GraceSeconds <= MaxTime
          /\ psTimeout' = t
          /\ psCallTime' = now
          /\ inflightAtCall' = InFlight
    /\ IF running
         THEN /\ psPc' = "checked"
              /\ UNCHANGED psResult
         ELSE /\ psResult' = "err"
              /\ psPc' = "returned"
    /\ UNCHANGED <<running, serverSet, startPc, startResult, listener,
                   inShutdown, ctxDeadline, ctxCancelled, srvPc, srvResult,
                   crashed, hkind, hpc>>
    /\ UNCHANGED <<now, coordVars, relayVars, cacheVars, logVars, caVars, guardVars>>

\* ProxyServer.Shutdown lines 237-245: context.WithTimeout, then
\* go func() { p.server.Shutdown(ctx) }() is started and not waited for.
ProxyServerShutdownSpawn ==
    /\ ~crashed
    /\ psPc = "checked"
    /\ ctxDeadline' = now + psTimeout
    /\ srvPc' = "spawned"
    /\ psPc' = "spawned"
    /\ UNCHANGED <<running, serverSet, startPc, startResult, listener,
                   inShutdown, psTimeout, psCallTime, psResult, ctxCancelled,
                   srvResult, crashed, hkind, hpc, inflightAtCall>>
    /\ UNCHANGED <<now, coordVars, relayVars, cacheVars, logVars, caVars, guardVars>>

\* ProxyServer.Shutdown line 248: enter p.shutdownCoordinator.Shutdown(timeout).
ProxyServerShutdownDrain ==
    /\ ~crashed
    /\ psPc = "spawned"
    /\ CoordEnter(psTimeout)
    /\ psPc' = "inCoord"
    /\ UNCHANGED <<shuttingDown, cancelled, connections, wg, connMu, done,
                   waiter, scTimer, scResult, closedConns, atTimeout, rpc, connAddr>>
    /\ UNCHANGED <<running, serverSet, startPc, startResult, listener,
                   inShutdown, psTimeout, psCallTime, psResult, ctxDeadline,
                   ctxCancelled, srvPc, srvResult, crashed, hkind, hpc,
                   inflightAtCall>>
    /\ UNCHANGED <<now, relayVars, cacheVars, logVars, caVars, guardVars>>

\* The value ProxyServer.Shutdown returns once the coordinator has returned
\* r: lines 248-258 log a coordinator error and return nil.
ShutdownReturnValue(r) == "nil"

\* ProxyServer.Shutdown lines 248-258: the coordinator returned; running is
\* cleared, the deferred cancel() runs, the call returns.
ProxyServerShutdownReturn ==
    /\ ~crashed
    /\ psPc = "inCoord"
    /\ scPc = "returned"
    /\ running' = FALSE
    /\ ctxCancelled' = TRUE
    /\ psResult' = ShutdownReturnValue(scResult)
    /\ psPc' = "returned"
    /\ UNCHANGED <<serverSet, startPc, startResult, listener, inShutdown,
                   psTimeout, psCallTime, ctxDeadline, srvPc, srvResult,
                   crashed, hkind, hpc, inflightAtCall>>
    /\ UNCHANGED <<now, coordVars, relayVars, cacheVars, logVars, caVars, guardVars>>

\* The goroutine of lines 241-245 starts running p.server.Shutdown(ctx):
\* on an unset p.server it dereferences nil; otherwise the server is marked
\* as shutting down and its listener, if any, is closed.
ServerShutdownCloseListener ==
    /\ ~crashed
    /\ srvPc = "spawned"
    /\ IF serverSet
         THEN /\ inShutdown' = TRUE
              /\ listener' = IF listener = "open" THEN "closed" ELSE listener
              /\ srvPc' = "polling"
              /\ UNCHANGED crashed
         ELSE /\ crashed' = TRUE
              /\ srvPc' = "returned"
              /\ UNCHANGED <<inShutdown, listener>>
    /\ UNCHANGED <<running, serverSet, startPc, startResult, psPc, psTimeout,
                   psCallTime, psResult, ctxDeadline, ctxCancelled, srvResult,
                   hkind, hpc, inflightAtCall>>
    /\ UNCHANGED <<now, coordVars, relayVars, cacheVars, logVars, caVars, guardVars>>

\* Connections the http.Server still waits for: handlers of plain requests;
\* a hijacked (CONNECT) connection is no longer the server's.
ServerActive == {h \in InFlight : hkind[h] = "http"}

\* The context of line 237 is done: deadline passed or cancel() called.
CtxDone == ctxCancelled \/ (ctxDeadline >= 0 /\ now >= ctxDeadline)

\* p.server.Shutdown(ctx) returns: nil when no connection is active,
\* ctx.Err() (logged at line 243) when the context is done first.
ServerShutdownReturn ==
    /\ ~crashed
    /\ srvPc = "polling"
    /\ \/ /\ ServerActive = {}
          /\ srvResult' = "nil"
       \/ /\ ServerActive # {}
          /\ CtxDone
          /\ srvResult' = "err"
    /\ srvPc' = "returned"
    /\ UNCHANGED <<running, serverSet, startPc, startResult, listener,
                   inShutdown, psPc, psTimeout, psCallTime, psResult,
                   ctxDeadline, ctxCancelled, crashed, hkind, hpc,
                   inflightAtCall>>
    /\ UNCHANGED <<now, coordVars, relayVars, cacheVars, logVars, caVars, guardVars>>

\* A task of the server world can take a step right now.
ServerBusy ==
    \/ startPc \in {"flagged", "created"}
    \/ (startPc = "serving" /\ listener = "closed")
    \/ psPc \in {"checked", "spawned"}
    \/ (psPc = "inCoord" /\ scPc = "returned")
    \/ srvPc = "spawned"
    \/ (srvPc = "polling" /\ (ServerActive = {} \/ CtxDone))

\* One second passes: nothing is runnable and no timer has expired.
Tick ==
    /\ ~crashed
    /\ now < MaxTime
    /\ ~CoordBusy
    /\ ~ServerBusy
    /\ now' = now + 1
    /\ UNCHANGED <<coordVars, serverVars, relayVars, cacheVars, logVars, caVars, guardVars>>


\* ===================================================================
\*        One connection: handleHTTP, HandleHTTPRequest, HandleCONNECT
\* ===================================================================

ProxyHeaderName  == "X-Proxied-By"
ProxyHeaderValue == "GoSniffer"

\* The list inside removeHopByHopHeaders.
hopByHopHeaders ==
    <<"Connection", "Keep-Alive", "Proxy-Authenticate", "Proxy-Authorization",
      "TE", "Trailers", "Transfer-Encoding", "Upgrade">>

HopByHopNames == {hopByHopHeaders[i] : i \in 1..Len(hopByHopHeaders)}
HeaderNames   == HopByHopNames \cup {ProxyHeaderName, "Accept"}

\* http.Header.Get answers "" for a header that is not there.
Absent   == ""
NoHeader == [n \in HeaderNames |-> Absent]

\* http.Header.Set / http.Header.Del
HeaderSet(h, name, value) == [h EXCEPT ![name] = value]
HeaderDel(h, name)        == [h EXCEPT ![name] = Absent]

\* removeHopByHopHeaders: h.Del(header) for every header of the list.
RECURSIVE DelEach(_, _, _)
DelEach(h, list, i) ==
    IF i > Len(list) THEN h ELSE DelEach(HeaderDel(h, list[i]), list, i + 1)

removeHopByHopHeaders_WithoutTE(h) ==
    DelEach(h, SelectSeq(hopByHopHeaders, LAMBDA n : n # "TE"), 1)

removeHopByHopHeaders(h) == DelEach(h, hopByHopHeaders, 1)

\* strings.ToLower on the header values that occur.
ToLower(v) ==
    CASE v = "keep-alive, Upgrade" -> "keep-alive, upgrade"
      [] v = "Upgrade"             -> "upgrade"
      [] v = "WebSocket"           -> "websocket"
      [] OTHER                     -> v

\* strings.Contains(v, "upgrade") on the header values that occur.
ContainsUpgrade(v) == v \in {"upgrade", "keep-alive, upgrade"}

\* isWebSocketUpgrade: Upgrade is exactly "websocket" and the lower-cased
\* Connection header contains "upgrade".
isWebSocketUpgrade(h) ==
    /\ h["Upgrade"] = "websocket"
    /\ ContainsUpgrade(ToLower(h["Connection"]))

\* Header injection and clean-up of HandleHTTPRequest lines 31-34,
\* proxyHTTPSTraffic lines 192-195 and handleKeepAlive lines 295-296.
MutateRequest(h) ==
    removeHopByHopHeaders(HeaderSet(h, ProxyHeaderName, ProxyHeaderValue))

\* Requests a client may send: the Upgrade and Connection values that decide
\* the WebSocket test, a spoofed audit header, and the six other hop-by-hop
\* headers present or not.
UpgradeValues    == {Absent, "websocket", "WebSocket"}
ConnectionValues == {Absent, "keep-alive, Upgrade", "close"}
ClientRequest(u, c, x, rest) ==
    [n \in HeaderNames |->
        CASE n = "Upgrade"       -> u
          [] n = "Connection"    -> c
          [] n = ProxyHeaderName -> x
          [] n = "Accept"        -> "*/*"
          [] OTHER               -> IF rest THEN "v" ELSE Absent]
ClientRequests ==
    {ClientRequest(u, c, x, rest) : u \in UpgradeValues, c \in ConnectionValues,
                                    x \in {Absent, "spoofed"}, rest \in BOOLEAN}

MaxReqs == 3   \* requests one client sends on one MITM connection

\* Statuses an upstream may answer with.
UpstreamStatuses == {101, 200, 404}
StatusSwitchingProtocols == 101

\* r.Host of a CONNECT request: empty, host:port, or a host without port.
NoTarget == <<>>
ConnectTargets == {NoTarget, <<"example.com", "443">>, <<"example.com">>}

\* HandleCONNECT lines 65-69: net.SplitHostPort, and the name as it is when
\* there is no port to split off.
SplitHostPort(hn) == IF Len(hn) = 2 THEN <<hn[1]>> ELSE hn

\* The local variable host of HandleCONNECT, handed to proxyHTTPSTraffic,
\* handleKeepAlive and handleWebSocketUpgrade as their hostname.
host == SplitHostPort(rHost)

\* Records of the logger: LogError, LogInfo and LogRequest with the name
\* their message is formatted with (NoTarget when it names no host).
ErrorRecord(n)   == <<"error", n>>
InfoRecord(n)    == <<"info", n>>
RequestRecord(n) == <<"request", n>>

\* Errors of a read, a write or a handshake on the client transport, by the
\* text the classification of lines 256-258 and 338-340 looks for.
ClientDisconnects == {"broken pipe", "connection reset", "wsasend"}
WriteErrors == ClientDisconnects \cup {"i/o timeout"}
HandshakeErrors == ClientDisconnects \cup {"protocol mismatch"}
ReadErrors == {"EOF", "i/o timeout", "connection reset", "malformed request"}

\* proxyHTTPSTraffic lines 256-258, handleKeepAlive lines 338-340.
isClientDisconnect(err) == err \in ClientDisconnects

\* handleKeepAlive line 281: the read errors that end the loop silently.
isQuietReadError(err) == err \in {"EOF", "i/o timeout"}

\* The deferred calls of HandleCONNECT (lines 85 and 149): when the handler
\* returns, a transport it opened is closed.
Deferred_Leak(p, t) == t

Deferred(p, t) == IF p = "returned" /\ t = "open" THEN "closed" ELSE t

\* The handler has been entered for a freshly accepted connection.
RelayInit ==
    /\ mitmEnabled \in BOOLEAN
    /\ pc = "accepted"
    /\ cur = NoHeader
    /\ curRaw = NoHeader
    /\ curId = 0
    /\ lastFwd = NoHeader
    /\ fwd = <<>>
    /\ nRead = 0
    /\ nRespWritten = 0
    /\ certState = "none"
    /\ clientTLS = "none"
    /\ upstream = "none"
    /\ respStatus = 0
    /\ proxyStatus = 0
    /\ copyUp = "none"
    /\ copyDown = "none"
    /\ rHost = NoTarget
    /\ clientConn = "none"
    /\ upstreamConn = "none"
    /\ hsErr = "none"
    /\ wsDone = 0
    /\ mitmLog = <<>>
    /\ upErr = "none"
    /\ obtained = <<>>
    /\ reqLog = <<>>

\* handleHTTP, with the entry of the handler it dispatches to:
\*  CONNECT without a MITM handler -> 501;
\*  HandleCONNECT lines 57-84: empty host -> 400, no hijack -> 500,
\*    otherwise the transport is hijacked;
\*  HandleHTTPRequest lines 25-34: inject the header, strip hop-by-hop.
handleHTTP ==
    /\ pc = "accepted"
    /\ \E method \in {"GET", "CONNECT"}, target \in ConnectTargets,
          hijack \in {"ok", "unsupported", "failed"}, h \in ClientRequests :
        IF method = "CONNECT"
          THEN /\ IF ~mitmEnabled
                    THEN /\ proxyStatus' = 501 /\ pc' = "returned"
                         /\ UNCHANGED <<rHost, clientConn, mitmLog>>
                    ELSE /\ rHost' = target
                         /\ IF target = NoTarget
                              THEN /\ proxyStatus' = 400 /\ pc' = "returned"
                                   /\ mitmLog' = Append(mitmLog, ErrorRecord(NoTarget))
                                   /\ UNCHANGED clientConn
                              ELSE IF hijack = "unsupported"
                                     THEN /\ proxyStatus' = 500 /\ pc' = "returned"
                                          /\ mitmLog' = Append(mitmLog, ErrorRecord(NoTarget))
                                          /\ UNCHANGED clientConn
                              ELSE IF hijack = "failed"
                                     THEN /\ proxyStatus' = 500 /\ pc' = "returned"
                                          /\ mitmLog' = Append(mitmLog, ErrorRecord(target))
                                          /\ UNCHANGED clientConn
                                     ELSE /\ proxyStatus' = 0 /\ pc' = "write200"
                                          /\ clientConn' = "open"
                                          /\ UNCHANGED mitmLog
               /\ UNCHANGED <<cur, curRaw, curId>>
          ELSE /\ cur' = MutateRequest(h)
               /\ curRaw' = h
               /\ curId' = 1
               /\ pc' = "http_do"
               /\ UNCHANGED <<proxyStatus, rHost, clientConn, mitmLog>>
    /\ UNCHANGED <<upstreamConn, hsErr, wsDone>>
    /\ UNCHANGED <<mitmEnabled, lastFwd, fwd, nRead, nRespWritten, certState,
                   clientTLS, upstream, respStatus, copyUp, copyDown>>
    /\ UNCHANGED <<now, coordVars, serverVars, auditVars, cacheVars, logVars, caVars, guardVars>>

\* Ways client.Do of forwardRequest line 73 fails: the transport fails
\* (connection refused, DNS, reset) or a deadline of the transport expires.
UpstreamFailures == {"refused", "dns", "reset", "timeout"}

\* The status forwardRequest answers the client with when client.Do failed
\* with e (lines 74-79).
StatusForUpstreamError(e) == 502

\* forwardRequest lines 62-86: http.NewRequest may fail (500); client.Do may
\* fail before or after the request went out; otherwise the upstream saw a
\* request with a clone of the headers and answered.  HandleHTTPRequest
\* lines 38-42 log an error, not a request, when forwardRequest failed.
HTTPForward ==
    /\ pc = "http_do"
    /\ \/ /\ proxyStatus' = 500
          /\ upErr' = "construct"
          /\ pc' = "returned"
          /\ UNCHANGED <<fwd, lastFwd, respStatus, obtained>>
       \/ /\ \E e \in UpstreamFailures :
                /\ upErr' = e
                /\ proxyStatus' = StatusForUpstreamError(e)
          /\ pc' = "returned"
          /\ \/ UNCHANGED <<fwd, lastFwd>>
             \/ (fwd' = Append(fwd, <<curId, "http">>) /\ lastFwd' = cur)
          /\ UNCHANGED <<respStatus, obtained>>
       \/ /\ fwd' = Append(fwd, <<curId, "http">>)
          /\ lastFwd' = cur
          /\ \E st \in UpstreamStatuses :
                /\ respStatus' = st
                /\ obtained' = Append(obtained, <<curId, st>>)
          /\ pc' = "http_copy"
          /\ UNCHANGED <<proxyStatus, upErr>>
    /\ UNCHANGED <<mitmEnabled, cur, curRaw, curId, nRead, nRespWritten, certState,
                   clientTLS, upstream, copyUp, copyDown, reqLog>>
    /\ UNCHANGED tunnelVars
    /\ UNCHANGED <<now, coordVars, serverVars, cacheVars, logVars, caVars, guardVars>>

\* Whether HandleHTTPRequest reaches LogRequest (line 45) when the io.Copy of
\* forwardRequest ended with copied = ok: forwardRequest returns the copy
\* error (line 92) and HandleHTTPRequest returns on any error (lines 38-42).
LogsAfterCopy(ok) == ok

\* forwardRequest lines 89-95: io.Copy of the body ends, with or without
\* error, then HandleHTTPRequest lines 38-45.
HTTPCopy ==
    /\ pc = "http_copy"
    /\ \E ok \in BOOLEAN :
          /\ nRespWritten' = IF ok THEN nRespWritten + 1 ELSE nRespWritten
          /\ reqLog' = IF LogsAfterCopy(ok)
                         THEN Append(reqLog, <<curId, respStatus>>)
                         ELSE reqLog
    /\ pc' = "returned"
    /\ UNCHANGED <<mitmEnabled, cur, curRaw, curId, lastFwd, fwd, nRead, certState,
                   clientTLS, upstream, respStatus, proxyStatus, copyUp,
                   copyDown, upErr, obtained>>
    /\ UNCHANGED tunnelVars
    /\ UNCHANGED <<now, coordVars, serverVars, cacheVars, logVars, caVars, guardVars>>

\* HandleCONNECT lines 88-92: write "HTTP/1.1 200 Connection Established".
Write200 ==
    /\ pc = "write200"
    /\ \E ok \in BOOLEAN : pc' = IF ok THEN "cert" ELSE "returned"
    /\ UNCHANGED <<mitmEnabled, cur, curRaw, curId, lastFwd, fwd, nRead, nRespWritten,
                   certState, clientTLS, upstream, respStatus, proxyStatus,
                   copyUp, copyDown>>
    /\ clientConn' = Deferred(pc', clientConn)
    /\ upstreamConn' = Deferred(pc', upstreamConn)
    /\ mitmLog' = IF pc' = "returned" THEN Append(mitmLog, ErrorRecord(rHost))
                                      ELSE mitmLog
    /\ UNCHANGED <<rHost, hsErr, wsDone>>
    /\ UNCHANGED <<now, coordVars, serverVars, auditVars, cacheVars, logVars, caVars, guardVars>>

\* What HandleCONNECT does after the certificate step ended with result r
\* (lines 95-108): abort on a generation failure, else go on to the handshake.
AfterCert(r) == IF r = "failed" THEN "returned" ELSE "handshake"

\* HandleCONNECT lines 95-108: cache hit, or a miss followed by
\* GenerateCertificate, which may fail.
CertReady ==
    /\ pc = "cert"
    /\ \E r \in {"hit", "minted", "failed"} :
          /\ certState' = r
          /\ pc' = AfterCert(r)
    /\ UNCHANGED <<mitmEnabled, cur, curRaw, curId, lastFwd, fwd, nRead, nRespWritten,
                   clientTLS, upstream, respStatus, proxyStatus, copyUp,
                   copyDown>>
    /\ clientConn' = Deferred(pc', clientConn)
    /\ upstreamConn' = Deferred(pc', upstreamConn)
    /\ mitmLog' = IF certState' = "failed" THEN Append(mitmLog, ErrorRecord(host))
                                          ELSE mitmLog
    /\ UNCHANGED <<rHost, hsErr, wsDone>>
    /\ UNCHANGED <<now, coordVars, serverVars, auditVars, cacheVars, logVars, caVars, guardVars>>

\* What HandleCONNECT does after the client handshake ended with result r
\* (lines 122-126): abort on failure, else dial the upstream.
AfterClientHandshake_Fallback(r) == "dial"

AfterClientHandshake(r) == IF r = "failed" THEN "returned" ELSE "dial"

\* HandleCONNECT lines 122-126: what is logged when clientTLS.Handshake
\* failed with err; the error is not classified.
HandshakeFailureRecords(err, n) == <<ErrorRecord(n)>>

\* HandleCONNECT lines 119-129: TLS handshake with the client.
ClientHandshake ==
    /\ pc = "handshake"
    /\ \/ /\ clientTLS' = "ok"
          /\ UNCHANGED <<mitmLog, hsErr>>
       \/ \E err \in HandshakeErrors :
             /\ clientTLS' = "failed"
             /\ hsErr' = err
             /\ mitmLog' = mitmLog \o HandshakeFailureRecords(err, host)
    /\ pc' = AfterClientHandshake(clientTLS')
    /\ UNCHANGED <<mitmEnabled, cur, curRaw, curId, lastFwd, fwd, nRead, nRespWritten,
                   certState, upstream, respStatus, proxyStatus, copyUp,
                   copyDown>>
    /\ clientConn' = Deferred(pc', clientConn)
    /\ upstreamConn' = Deferred(pc', upstreamConn)
    /\ UNCHANGED <<rHost, wsDone>>
    /\ UNCHANGED <<now, coordVars, serverVars, auditVars, cacheVars, logVars, caVars, guardVars>>

\* What HandleCONNECT does after tls.DialWithDialer ended with result r
\* (lines 143-163): abort on failure, else enter proxyHTTPSTraffic.
AfterUpstreamDial(r) == IF r = "failed" THEN "returned" ELSE "m_read"

\* upstreamTLSConfig of lines 132-137 leaves InsecureSkipVerify unset.
InsecureSkipVerify_Set == TRUE

InsecureSkipVerify == FALSE

\* Results of tls.DialWithDialer under that configuration: a connection whose
\* certificate chain, name and dates were verified, or an error.  Only a
\* configuration that skips verification can yield an unverified connection.
UpstreamDialResults ==
    IF InsecureSkipVerify THEN {"verified", "unverified", "failed"}
                          ELSE {"verified", "failed"}

\* HandleCONNECT lines 132-149: dial the upstream and do the TLS handshake.
\* On failure the http.Error goes to the hijacked writer and reaches nobody.
UpstreamDial ==
    /\ pc = "dial"
    /\ \E r \in UpstreamDialResults :
          /\ upstream' = r
          /\ pc' = AfterUpstreamDial(r)
    /\ UNCHANGED <<mitmEnabled, cur, curRaw, curId, lastFwd, fwd, nRead, nRespWritten,
                   certState, clientTLS, respStatus, proxyStatus, copyUp,
                   copyDown>>
    /\ clientConn' = Deferred(pc', clientConn)
    /\ upstreamConn' = IF upstream' = "failed" THEN upstreamConn ELSE "open"
    /\ mitmLog' = IF upstream' = "failed" THEN Append(mitmLog, ErrorRecord(rHost))
                                         ELSE mitmLog
    /\ UNCHANGED <<rHost, hsErr, wsDone>>
    /\ UNCHANGED <<now, coordVars, serverVars, auditVars, cacheVars, logVars, caVars, guardVars>>


\* proxyHTTPSTraffic lines 185-201: the headers of the first request as they
\* are handed to the upstream writer.  A WebSocket upgrade goes to
\* handleWebSocketUpgrade before the injection and is written as received.
FirstRequestOut(h) == IF isWebSocketUpgrade(h) THEN h ELSE MutateRequest(h)

\* handleKeepAlive lines 295-299: every later request is injected and
\* stripped; there is no WebSocket test in the loop.
KeepAliveRequestOut(h) == MutateRequest(h)

\* proxyHTTPSTraffic lines 170-218: parse the first request of the client's
\* TLS stream; route a WebSocket upgrade to handleWebSocketUpgrade, otherwise
\* mutate and dump the request.
ReadFirstRequest ==
    /\ pc = "m_read"
    /\ \/ /\ pc' = "returned"
          /\ mitmLog' = Append(mitmLog, ErrorRecord(host))
          /\ UNCHANGED <<cur, curRaw, curId, nRead>>
       \/ \E h \in ClientRequests, dumped \in BOOLEAN :
             /\ nRead' = nRead + 1
             /\ curId' = nRead + 1
             /\ cur' = FirstRequestOut(h)
             /\ curRaw' = h
             /\ pc' = IF isWebSocketUpgrade(h) THEN "ws_write"
                      ELSE IF dumped THEN "m_write" ELSE "returned"
             /\ mitmLog' = mitmLog \o
                   (IF isWebSocketUpgrade(h)
                      THEN <<InfoRecord(host), InfoRecord(host)>>
                      ELSE IF dumped
                             THEN <<InfoRecord(host), InfoRecord(host), InfoRecord(host)>>
                             ELSE <<InfoRecord(host), InfoRecord(host), ErrorRecord(host)>>)
    /\ clientConn' = Deferred(pc', clientConn)
    /\ upstreamConn' = Deferred(pc', upstreamConn)
    /\ UNCHANGED <<rHost, hsErr, wsDone>>
    /\ UNCHANGED <<mitmEnabled, lastFwd, fwd, nRespWritten, certState,
                   clientTLS, upstream, respStatus, proxyStatus, copyUp,
                   copyDown>>
    /\ UNCHANGED <<now, coordVars, serverVars, auditVars, cacheVars, logVars, caVars, guardVars>>

\* proxyHTTPSTraffic lines 223-231: upstreamConn.Write(reqDump).
WriteUpstream ==
    /\ pc = "m_write"
    /\ \/ /\ fwd' = Append(fwd, <<curId, "first">>)
          /\ lastFwd' = cur
          /\ pc' = "m_readresp"
       \/ /\ pc' = "returned"
          /\ UNCHANGED <<fwd, lastFwd>>
    /\ UNCHANGED <<mitmEnabled, cur, curRaw, curId, nRead, nRespWritten, certState,
                   clientTLS, upstream, respStatus, proxyStatus, copyUp,
                   copyDown>>
    /\ clientConn' = Deferred(pc', clientConn)
    /\ upstreamConn' = Deferred(pc', upstreamConn)
    /\ mitmLog' = IF pc' = "returned"
                     THEN Append(mitmLog, ErrorRecord(host))
                     ELSE mitmLog \o <<InfoRecord(host), InfoRecord(host)>>
    /\ UNCHANGED <<rHost, hsErr, wsDone>>
    /\ UNCHANGED <<now, coordVars, serverVars, auditVars, cacheVars, logVars, caVars, guardVars>>

\* proxyHTTPSTraffic lines 236-249: http.ReadResponse from the upstream.
ReadResponse ==
    /\ pc = "m_readresp"
    /\ \/ \E st \in UpstreamStatuses :
             /\ respStatus' = st
             /\ obtained' = Append(obtained, <<curId, st>>)
             /\ reqLog' = Append(reqLog, <<curId, st>>)
             /\ pc' = "m_writeresp"
       \/ (pc' = "returned" /\ UNCHANGED <<respStatus, obtained, reqLog>>)
    /\ UNCHANGED <<mitmEnabled, cur, curRaw, curId, lastFwd, fwd, nRead, nRespWritten,
                   certState, clientTLS, upstream, proxyStatus, copyUp,
                   copyDown, upErr>>
    /\ clientConn' = Deferred(pc', clientConn)
    /\ upstreamConn' = Deferred(pc', upstreamConn)
    /\ mitmLog' = IF pc' = "returned"
                     THEN Append(mitmLog, ErrorRecord(host))
                     ELSE mitmLog \o <<InfoRecord(host), RequestRecord(host)>>
    /\ UNCHANGED <<rHost, hsErr, wsDone>>
    /\ UNCHANGED <<now, coordVars, serverVars, cacheVars, logVars, caVars, guardVars>>

\* proxyHTTPSTraffic lines 253-268 and handleKeepAlive line 274:
\* resp.Write(clientConn); on success enter the keep-alive loop.
WriteResponse ==
    /\ pc = "m_writeresp"
    /\ \/ (nRespWritten' = nRespWritten + 1 /\ pc' = "k_read")
       \/ (pc' = "returned" /\ UNCHANGED nRespWritten)
    /\ UNCHANGED <<mitmEnabled, cur, curRaw, curId, lastFwd, fwd, nRead, certState,
                   clientTLS, upstream, respStatus, proxyStatus, copyUp,
                   copyDown>>
    /\ clientConn' = Deferred(pc', clientConn)
    /\ upstreamConn' = Deferred(pc', upstreamConn)
    /\ \/ pc' # "returned" /\ UNCHANGED mitmLog
       \/ pc' = "returned" /\ \E err \in WriteErrors :
             mitmLog' = IF isClientDisconnect(err) THEN mitmLog
                        ELSE Append(mitmLog, ErrorRecord(host))
    /\ UNCHANGED <<rHost, hsErr, wsDone>>
    /\ UNCHANGED <<now, coordVars, serverVars, auditVars, cacheVars, logVars, caVars, guardVars>>

\* handleKeepAlive lines 278-311: http.ReadRequest under the 1s deadline;
\* EOF, timeout or error end the loop; otherwise mutate and dump.
KeepAliveRead ==
    /\ pc = "k_read"
    /\ \/ /\ pc' = "returned"
          /\ \E err \in ReadErrors :
                mitmLog' = IF isQuietReadError(err) THEN mitmLog
                           ELSE Append(mitmLog, ErrorRecord(host))
          /\ UNCHANGED <<cur, curRaw, curId, nRead>>
       \/ /\ nRead < MaxReqs
          /\ \E h \in ClientRequests, dumped \in BOOLEAN :
                /\ nRead' = nRead + 1
                /\ curId' = nRead + 1
                /\ cur' = KeepAliveRequestOut(h)
                /\ curRaw' = h
                /\ pc' = IF dumped THEN "k_write" ELSE "returned"
                /\ mitmLog' = mitmLog \o
                      (IF dumped THEN <<InfoRecord(host), InfoRecord(host)>>
                                 ELSE <<InfoRecord(host), ErrorRecord(host)>>)
    /\ clientConn' = Deferred(pc', clientConn)
    /\ upstreamConn' = Deferred(pc', upstreamConn)
    /\ UNCHANGED <<rHost, hsErr, wsDone>>
    /\ UNCHANGED <<mitmEnabled, lastFwd, fwd, nRespWritten, certState,
                   clientTLS, upstream, respStatus, proxyStatus, copyUp,
                   copyDown>>
    /\ UNCHANGED <<now, coordVars, serverVars, auditVars, cacheVars, logVars, caVars, guardVars>>

\* Where handleKeepAlive goes after upstreamConn.Write (lines 315-320).
AfterKeepAliveWrite_Pipelined(ok) == IF ok THEN "k_read" ELSE "returned"

AfterKeepAliveWrite(ok) == IF ok THEN "k_readresp" ELSE "returned"

\* handleKeepAlive lines 315-320: upstreamConn.Write(reqDump).
KeepAliveWrite ==
    /\ pc = "k_write"
    /\ \E ok \in BOOLEAN :
          /\ pc' = AfterKeepAliveWrite(ok)
          /\ IF ok
               THEN fwd' = Append(fwd, <<curId, "keepalive">>) /\ lastFwd' = cur
               ELSE UNCHANGED <<fwd, lastFwd>>
    /\ UNCHANGED <<mitmEnabled, cur, curRaw, curId, nRead, nRespWritten, certState,
                   clientTLS, upstream, respStatus, proxyStatus, copyUp,
                   copyDown>>
    /\ clientConn' = Deferred(pc', clientConn)
    /\ upstreamConn' = Deferred(pc', upstreamConn)
    /\ mitmLog' = IF pc' = "returned" THEN Append(mitmLog, ErrorRecord(host))
                                      ELSE mitmLog
    /\ UNCHANGED <<rHost, hsErr, wsDone>>
    /\ UNCHANGED <<now, coordVars, serverVars, auditVars, cacheVars, logVars, caVars, guardVars>>

\* handleKeepAlive lines 323-331: http.ReadResponse from the upstream.
KeepAliveReadResponse ==
    /\ pc = "k_readresp"
    /\ \/ \E st \in UpstreamStatuses :
             /\ respStatus' = st
             /\ obtained' = Append(obtained, <<curId, st>>)
             /\ reqLog' = Append(reqLog, <<curId, st>>)
             /\ pc' = "k_writeresp"
       \/ (pc' = "returned" /\ UNCHANGED <<respStatus, obtained, reqLog>>)
    /\ UNCHANGED <<mitmEnabled, cur, curRaw, curId, lastFwd, fwd, nRead, nRespWritten,
                   certState, clientTLS, upstream, proxyStatus, copyUp,
                   copyDown, upErr>>
    /\ clientConn' = Deferred(pc', clientConn)
    /\ upstreamConn' = Deferred(pc', upstreamConn)
    /\ mitmLog' = IF pc' = "returned" THEN Append(mitmLog, ErrorRecord(host))
                                      ELSE Append(mitmLog, RequestRecord(host))
    /\ UNCHANGED <<rHost, hsErr, wsDone>>
    /\ UNCHANGED <<now, coordVars, serverVars, cacheVars, logVars, caVars, guardVars>>

\* handleKeepAlive lines 334-348: resp.Write(clientConn), then loop.
KeepAliveWriteResponse ==
    /\ pc = "k_writeresp"
    /\ \/ (nRespWritten' = nRespWritten + 1 /\ pc' = "k_read")
       \/ (pc' = "returned" /\ UNCHANGED nRespWritten)
    /\ UNCHANGED <<mitmEnabled, cur, curRaw, curId, lastFwd, fwd, nRead, certState,
                   clientTLS, upstream, respStatus, proxyStatus, copyUp,
                   copyDown>>
    /\ clientConn' = Deferred(pc', clientConn)
    /\ upstreamConn' = Deferred(pc', upstreamConn)
    /\ \/ pc' # "returned" /\ UNCHANGED mitmLog
       \/ pc' = "returned" /\ \E err \in WriteErrors :
             mitmLog' = IF isClientDisconnect(err) THEN mitmLog
                        ELSE Append(mitmLog, ErrorRecord(host))
    /\ UNCHANGED <<rHost, hsErr, wsDone>>
    /\ UNCHANGED <<now, coordVars, serverVars, auditVars, cacheVars, logVars, caVars, guardVars>>

\* handleWebSocketUpgrade lines 361-366: req.Write(upstreamConn).
WSWriteUpgrade ==
    /\ pc = "ws_write"
    /\ \/ /\ fwd' = Append(fwd, <<curId, "ws">>)
          /\ lastFwd' = cur
          /\ pc' = "ws_readresp"
       \/ /\ pc' = "returned"
          /\ UNCHANGED <<fwd, lastFwd>>
    /\ UNCHANGED <<mitmEnabled, cur, curRaw, curId, nRead, nRespWritten, certState,
                   clientTLS, upstream, respStatus, proxyStatus, copyUp,
                   copyDown>>
    /\ clientConn' = Deferred(pc', clientConn)
    /\ upstreamConn' = Deferred(pc', upstreamConn)
    /\ mitmLog' = IF pc' = "returned" THEN Append(mitmLog, ErrorRecord(host))
                                      ELSE Append(mitmLog, InfoRecord(host))
    /\ UNCHANGED <<rHost, hsErr, wsDone>>
    /\ UNCHANGED <<now, coordVars, serverVars, auditVars, cacheVars, logVars, caVars, guardVars>>

\* handleWebSocketUpgrade lines 369-376: read the upgrade response.
WSReadResponse ==
    /\ pc = "ws_readresp"
    /\ \/ \E st \in UpstreamStatuses :
             /\ respStatus' = st
             /\ obtained' = Append(obtained, <<curId, st>>)
             /\ pc' = "ws_writeresp"
       \/ (pc' = "returned" /\ UNCHANGED <<respStatus, obtained>>)
    /\ UNCHANGED <<mitmEnabled, cur, curRaw, curId, lastFwd, fwd, nRead, nRespWritten,
                   certState, clientTLS, upstream, proxyStatus, copyUp,
                   copyDown, upErr, reqLog>>
    /\ clientConn' = Deferred(pc', clientConn)
    /\ upstreamConn' = Deferred(pc', upstreamConn)
    /\ mitmLog' = IF pc' = "returned" THEN Append(mitmLog, ErrorRecord(host))
                                      ELSE Append(mitmLog, InfoRecord(host))
    /\ UNCHANGED <<rHost, hsErr, wsDone>>
    /\ UNCHANGED <<now, coordVars, serverVars, cacheVars, logVars, caVars, guardVars>>

\* handleWebSocketUpgrade lines 379-413: a response other than 101 is passed
\* to the client and the handler returns; a 101 is passed on and the two
\* copy goroutines are started.
WSWriteResponse ==
    /\ pc = "ws_writeresp"
    /\ \E ok \in BOOLEAN :
          /\ nRespWritten' = IF ok THEN nRespWritten + 1 ELSE nRespWritten
          /\ IF respStatus = StatusSwitchingProtocols /\ ok
               THEN /\ pc' = "ws_tunnel"
                    /\ copyUp' = "running"
                    /\ copyDown' = "running"
                    /\ reqLog' = Append(reqLog, <<curId, respStatus>>)
               ELSE pc' = "returned" /\ UNCHANGED <<copyUp, copyDown, reqLog>>
    /\ UNCHANGED <<mitmEnabled, cur, curRaw, curId, lastFwd, fwd, nRead, certState,
                   clientTLS, upstream, respStatus, proxyStatus, upErr, obtained>>
    /\ clientConn' = Deferred(pc', clientConn)
    /\ upstreamConn' = Deferred(pc', upstreamConn)
    /\ mitmLog' = IF pc' = "ws_tunnel"
                     THEN mitmLog \o <<InfoRecord(host), RequestRecord(host)>>
                     ELSE Append(mitmLog, ErrorRecord(host))
    /\ UNCHANGED <<rHost, hsErr, wsDone>>
    /\ UNCHANGED <<now, coordVars, serverVars, cacheVars, logVars, caVars, guardVars>>

\* cap(done), handleWebSocketUpgrade line 401: make(chan struct{}, 2).
DoneCap == 2

\* handleWebSocketUpgrade lines 404-412: the io.Copy of one direction
\* returns because its peer reached EOF or failed.
WSCopyEnd ==
    /\ \/ (copyUp = "running" /\ copyUp' = "ended" /\ UNCHANGED copyDown)
       \/ (copyDown = "running" /\ copyDown' = "ended" /\ UNCHANGED copyUp)
    /\ UNCHANGED <<mitmEnabled, pc, cur, curRaw, curId, lastFwd, fwd, nRead,
                   nRespWritten, certState, clientTLS, upstream, respStatus,
                   proxyStatus, tunnelVars>>
    /\ UNCHANGED <<now, coordVars, serverVars, auditVars, cacheVars, logVars, caVars, guardVars>>

\* The same io.Copy calls when the transport they read from was closed under
\* them: the Read of a closed transport returns an error.
WSCopyBroken ==
    /\ \/ /\ copyUp = "running" /\ clientConn = "closed"
          /\ copyUp' = "ended" /\ UNCHANGED copyDown
       \/ /\ copyDown = "running" /\ upstreamConn = "closed"
          /\ copyDown' = "ended" /\ UNCHANGED copyUp
    /\ UNCHANGED <<mitmEnabled, pc, cur, curRaw, curId, lastFwd, fwd, nRead,
                   nRespWritten, certState, clientTLS, upstream, respStatus,
                   proxyStatus, tunnelVars>>
    /\ UNCHANGED <<now, coordVars, serverVars, auditVars, cacheVars, logVars, caVars, guardVars>>

\* handleWebSocketUpgrade lines 406 and 412: done <- struct{}{}, which blocks
\* while the buffer of done is full.
WSCopySignal ==
    /\ wsDone < DoneCap
    /\ \/ (copyUp = "ended" /\ copyUp' = "done" /\ UNCHANGED copyDown)
       \/ (copyDown = "ended" /\ copyDown' = "done" /\ UNCHANGED copyUp)
    /\ wsDone' = wsDone + 1
    /\ UNCHANGED <<mitmEnabled, pc, cur, curRaw, curId, lastFwd, fwd, nRead,
                   nRespWritten, certState, clientTLS, upstream, respStatus,
                   proxyStatus, rHost, clientConn, upstreamConn, hsErr, mitmLog>>
    /\ UNCHANGED <<now, coordVars, serverVars, auditVars, cacheVars, logVars, caVars, guardVars>>

\* Whether the receive of line 416 completes with n values buffered in
\* done: one signal is enough.
FirstSignal_Both(n) == n > 1

FirstSignal(n) == n > 0

\* handleWebSocketUpgrade lines 416-418 and the deferred calls of
\* HandleCONNECT: <-done, the closing record, return.
WSTunnelClosed ==
    /\ pc = "ws_tunnel"
    /\ FirstSignal(wsDone)
    /\ wsDone' = wsDone - 1
    /\ pc' = "returned"
    /\ mitmLog' = Append(mitmLog, InfoRecord(host))
    /\ clientConn' = Deferred(pc', clientConn)
    /\ upstreamConn' = Deferred(pc', upstreamConn)
    /\ UNCHANGED <<mitmEnabled, cur, curRaw, curId, lastFwd, fwd, nRead, nRespWritten,
                   certState, clientTLS, upstream, respStatus, proxyStatus,
                   copyUp, copyDown, rHost, hsErr>>
    /\ UNCHANGED <<now, coordVars, serverVars, auditVars, cacheVars, logVars, caVars, guardVars>>

\* Shutdown is called on the coordinator while the connection is in flight.
\* The clock of this world stands still, so the drain timer never expires.
RelayShutdownCall ==
    /\ CoordEnter(MaxTimeout)
    /\ UNCHANGED <<shuttingDown, cancelled, connections, wg, connMu, done,
                   waiter, scTimer, scResult, closedConns, atTimeout, rpc, connAddr>>
    /\ UNCHANGED <<now, serverVars, relayVars, cacheVars, logVars, caVars, guardVars>>

\* ===================================================================
\*                         CertificateCache
\* ===================================================================

\* ------------------------------------------------------------------ bounds
maxSize         == 2   \* c.maxSize, the configured maximum of the cache
ttl             == 1   \* c.ttl, in clock units
CleanupInterval == 1   \* the constant CleanupInterval (one hour): the clock unit
MaxConnects     == 4   \* CONNECT requests handled in one run
MaxClients      == 2   \* CONNECT handlers using the cache concurrently
MaxCalls        == 2   \* CONNECT requests in one run of the guard-level cache

CacheHorizon == ttl + CleanupInterval + 1   \* horizon of the clock
Clients   == 1..MaxClients
HostNames == <<"a", "b", "c", "d", "e">>
Hosts     == {HostNames[i] : i \in 1..(maxSize + 1)}
NoHost    == ""

\* CertificateBundle: the serial stands for key and certificate, CreatedAt
\* is the instant GenerateCertificate built the bundle.
NoBundle == [serial |-> 0, createdAt |-> 0, notAfter |-> 0]

\* c.mu, a sync.RWMutex: w is the task holding the write lock (0 = none), q
\* the tasks blocked in Lock, r the tasks holding a read lock, rq the tasks
\* blocked in RLock.  MuIdle: nobody holds or wants it.
MuIdle == [w |-> 0, q |-> {}, r |-> {}, rq |-> {}]

\* The tasks other than the CONNECT handlers that use c.mu: the sweeper
\* goroutine and a caller of Size.
Sweeper == MaxClients + 1
Sizer   == MaxClients + 2

\* The handlers that run in the guard-level world, and the tasks that take
\* the write lock there.
GuardClients == {1, 2}
Writers      == GuardClients \cup {Sweeper}

\* NewCertificateCache: empty map and list, the sweeper started; no handler
\* is inside HandleCONNECT.
CacheInit ==
    /\ cache = [h \in Hosts |-> NoBundle]
    /\ lruList = <<>>
    /\ stopChan = FALSE
    /\ sweeper = "waiting"
    /\ nextSweep = CleanupInterval
    /\ cpc = [c \in Clients |-> "idle"]
    /\ chost = [c \in Clients |-> NoHost]
    /\ ccert = [c \in Clients |-> NoBundle]
    /\ useOrder = <<>>
    /\ evicted = [c \in Clients |-> NoHost]
    /\ nconn = 0
    /\ mu = MuIdle
    /\ stopPc = "none"
    /\ stop2 = "none"

\* len(c.cache)
Size == Cardinality({h \in Hosts : cache[h] # NoBundle})

\* time.Since(entry.bundle.CreatedAt) > c.ttl, at instant t.
Expired_Never(b, t) == FALSE

Expired(b, t) == t - b.createdAt > ttl

\* Position in l of the element an entry for h points to: the element pushed
\* last for h.
ElementOf(l, h) == CHOOSE i \in 1..Len(l) :
                      l[i] = h /\ \A j \in (i + 1)..Len(l) : l[j] # h

\* list.Remove(entry.lruElement)
ListRemove_Keep(l, h) == l

ListRemove(l, h) ==
    LET i == ElementOf(l, h) IN SubSeq(l, 1, i - 1) \o SubSeq(l, i + 1, Len(l))

\* list.MoveToBack(entry.lruElement)
MoveToBack(l, h) == Append(ListRemove(l, h), h)

\* What Get does to the LRU list on a hit (line 82).
TouchOnGet_Skip(l, h) == l

TouchOnGet(l, h) == MoveToBack(l, h)

\* The test of Put line 95: the hostname already has an entry.
PutFindsEntry_Never(h) == FALSE

PutFindsEntry(h) == cache[h] # NoBundle

\* The test of Put line 103: the cache is full.
CacheFull_Above == Len(lruList) > maxSize

CacheFull == Len(lruList) >= maxSize

\* The order of last use after a successful get or put of h, and after the
\* hostnames of gone left the cache.
Used(order, h) == Append(SelectSeq(order, LAMBDA x : x # h), h)
Forgotten(order, gone) == SelectSeq(order, LAMBDA x : x \notin gone)

\* Handlers between the cache lookup of HandleCONNECT and the TLS handshake.
InLookup == {c \in Clients : cpc[c] \in {"mint", "put", "ready"}}

\* A handler holds its certificate and is about to leave the certificate
\* step: what it does next involves neither the cache nor another handler,
\* and it does it before another handler takes a step.
Leaving == \E c \in Clients : cpc[c] = "ready"

\* Hostnames have no identity of their own: they are named in the order of
\* their first CONNECT.
NextHosts == {HostNames[i] : i \in 1..(IF nconn < maxSize THEN nconn + 1 ELSE maxSize + 1)}

\* CertificateCache.Get lines 69-84, between Lock and Unlock, called by
\* handler c for h; the handler goes on to mint on nil and to the handshake
\* on a bundle.
Get(c, h) ==
    IF cache[h] = NoBundle
      THEN /\ cpc' = [cpc EXCEPT ![c] = "mint"]
           /\ UNCHANGED <<cache, lruList, ccert, useOrder>>
      ELSE IF Expired(cache[h], now)
             THEN /\ lruList' = ListRemove(lruList, h)
                  /\ cache' = [cache EXCEPT ![h] = NoBundle]
                  /\ cpc' = [cpc EXCEPT ![c] = "mint"]
                  /\ useOrder' = Forgotten(useOrder, {h})
                  /\ UNCHANGED ccert
             ELSE /\ lruList' = TouchOnGet(lruList, h)
                  /\ ccert' = [ccert EXCEPT ![c] = cache[h]]
                  /\ cpc' = [cpc EXCEPT ![c] = "ready"]
                  /\ useOrder' = Used(useOrder, h)
                  /\ UNCHANGED cache

\* HandleCONNECT lines 57-95 for host h: the tunnel is open and
\* CertificateCache.Get runs under c.mu: absent -> nil; expired -> removed,
\* nil; else moved to the back and returned.
\* The goroutines that run HandleCONNECT are interchangeable: a new CONNECT
\* runs in the lowest free handler.
CacheGet(c, h) ==
    /\ cpc[c] = "idle"
    /\ ~Leaving
    /\ \A x \in Clients : cpc[x] = "idle" => c <= x
    /\ nconn < MaxConnects
    /\ h \in NextHosts
    /\ nconn' = nconn + 1
    /\ chost' = [chost EXCEPT ![c] = h]
    /\ Get(c, h)
    /\ UNCHANGED <<stopChan, sweeper, nextSweep, evicted>>
    /\ UNCHANGED <<now, coordVars, serverVars, relayVars, logVars, caVars, guardVars>>

\* GenerateCertificate lines 62-63: a random serial number, distinct from
\* that of every bundle for h the cache or a handler still holds; the least
\* such number stands for it.
FreshSerial(h) ==
    LET live == {cache[h].serial} \cup
                {ccert[c].serial : c \in {x \in Clients : chost[x] = h}}
    IN CHOOSE n \in 1..(MaxClients + 1) :
           n \notin live /\ \A m \in 1..(n - 1) : m \in live

\* The validity of a leaf certificate, cert.go line 76: 90 days, three times
\* the 30 days of CertificateTTL (cache.go line 16).
LeafValidity == 3 * ttl

\* cert.go lines 75-76: NotAfter of a certificate minted at instant t.
NotAfter_Immediate(t) == t

NotAfter(t) == t + LeafValidity

\* CA.GenerateCertificate called at HandleCONNECT line 99: a fresh bundle
\* with CreatedAt = time.Now(), or an error, on which the handler returns.
GenerateCertificate(c) ==
    /\ cpc[c] = "mint"
    /\ ~Leaving
    /\ \/ /\ ccert' = [ccert EXCEPT ![c] = [serial |-> FreshSerial(chost[c]),
                                               createdAt |-> now,
                                               notAfter |-> NotAfter(now)]]
          /\ cpc' = [cpc EXCEPT ![c] = "put"]
          /\ UNCHANGED chost
       \/ /\ cpc' = [cpc EXCEPT ![c] = "idle"]
          /\ chost' = [chost EXCEPT ![c] = NoHost]
          /\ UNCHANGED ccert
    /\ UNCHANGED <<cache, lruList, stopChan, sweeper, nextSweep, nconn,
                   useOrder, evicted>>
    /\ UNCHANGED <<now, coordVars, serverVars, relayVars, logVars, caVars, guardVars>>

\* CertificateCache.Put lines 95-119, between Lock and Unlock: replace
\* the bundle of a present hostname and move it to the back; otherwise evict
\* the front of the list when the cache is full, then push at the back.
\* evicted[c] is the hostname of the "[CACHE] Evicted certificate" record of
\* this call, if any.
Put(c) ==
    LET h == chost[c]
        b == ccert[c]
    IN
    /\ IF PutFindsEntry(h)
         THEN /\ cache' = [cache EXCEPT ![h] = b]
              /\ lruList' = MoveToBack(lruList, h)
              /\ UNCHANGED evicted
         ELSE IF CacheFull /\ lruList # <<>>
                THEN LET oldest == Head(lruList) IN
                     /\ cache' = [cache EXCEPT ![oldest] = NoBundle, ![h] = b]
                     /\ lruList' = Append(ListRemove(lruList, oldest), h)
                     /\ evicted' = [evicted EXCEPT ![c] = oldest]
                ELSE /\ cache' = [cache EXCEPT ![h] = b]
                     /\ lruList' = Append(lruList, h)
                     /\ UNCHANGED evicted
    /\ useOrder' = Used(Forgotten(useOrder, {x \in Hosts : cache'[x] = NoBundle}), h)
    /\ cpc' = [cpc EXCEPT ![c] = "ready"]

\* HandleCONNECT line 107: the handler that minted stores its bundle.
CachePut(c) ==
    /\ cpc[c] = "put"
    /\ ~Leaving
    /\ Put(c)
    /\ UNCHANGED <<stopChan, sweeper, nextSweep, nconn, chost, ccert>>
    /\ UNCHANGED <<now, coordVars, serverVars, relayVars, logVars, caVars, guardVars>>

\* HandleCONNECT lines 110-164: the handler builds the TLS configuration
\* from the bundle in hand and serves the connection without the cache.
ServeWithCert(c) ==
    /\ cpc[c] = "ready"
    /\ cpc' = [cpc EXCEPT ![c] = "idle"]
    /\ chost' = [chost EXCEPT ![c] = NoHost]
    /\ ccert' = [ccert EXCEPT ![c] = NoBundle]
    /\ evicted' = [evicted EXCEPT ![c] = NoHost]
    /\ UNCHANGED <<cache, lruList, stopChan, sweeper, nextSweep, nconn, useOrder>>
    /\ UNCHANGED <<now, coordVars, serverVars, relayVars, logVars, caVars, guardVars>>

\* The hostnames performCleanup collects at instant t (lines 178-183).
ExpiredHostnames_None(t) == {}

ExpiredHostnames(t) == {h \in Hosts : cache[h] # NoBundle /\ Expired(cache[h], t)}

\* performCleanup lines 174-194, between Lock and Unlock: every expired
\* entry is removed.
Cleanup ==
    /\ cache' = [h \in Hosts |-> IF h \in ExpiredHostnames(now) THEN NoBundle
                                                                ELSE cache[h]]
    /\ lruList' = SelectSeq(lruList, LAMBDA h : h \notin ExpiredHostnames(now))
    /\ useOrder' = Forgotten(useOrder, ExpiredHostnames(now))

\* cleanupExpired, case <-ticker.C: the tick is taken and performCleanup
\* runs under c.mu (lines 160-161).
PerformCleanup ==
    /\ sweeper = "waiting"
    /\ now >= nextSweep
    /\ nextSweep' = nextSweep + CleanupInterval
    /\ Cleanup
    /\ UNCHANGED <<stopChan, sweeper, nconn, cpc, chost, ccert, evicted>>
    /\ UNCHANGED <<now, coordVars, serverVars, relayVars, logVars, caVars, guardVars>>

\* Stop line 145: close(c.stopChan); the caller then blocks in c.wg.Wait().
Stop ==
    /\ stopPc = "none"
    /\ stopChan' = TRUE
    /\ stopPc' = "waiting"
    /\ UNCHANGED <<cache, lruList, sweeper, nextSweep, nconn, cpc, chost,
                   ccert, useOrder, evicted, mu, stop2>>
    /\ UNCHANGED <<now, coordVars, serverVars, relayVars, logVars, caVars>>

\* The counter of c.wg is zero: the deferred wg.Done() of cleanupExpired ran
\* (line 153).
SweeperDone_Always == TRUE

SweeperDone == sweeper = "exited"

\* Stop line 146: c.wg.Wait() returns and so does Stop.
StopReturn ==
    /\ stopPc = "waiting"
    /\ SweeperDone
    /\ stopPc' = "returned"
    /\ UNCHANGED <<cacheVars, mu, stop2>>
    /\ UNCHANGED <<now, coordVars, serverVars, relayVars, logVars, caVars>>

\* close(c.stopChan), the first statement of Stop (line 145) and of
\* StopWithContext (line 199), on a channel that is closed or not: closing
\* a closed channel panics.
CloseStopChan(closed) == IF closed THEN "panicked" ELSE "closed"

\* A further call of Stop or of StopWithContext, made while the first call
\* waits or after it has returned.  Neither function tests whether the
\* cache was stopped before.
StopAgain ==
    /\ stopPc # "none"
    /\ stop2 = "none"
    /\ \E api \in {"Stop", "StopWithContext"} :
          stop2' = CloseStopChan(stopChan)
    /\ UNCHANGED <<cacheVars, mu, stopPc>>
    /\ UNCHANGED <<now, coordVars, serverVars, relayVars, logVars, caVars>>

\* cleanupExpired, case <-c.stopChan: the goroutine returns and its deferred
\* ticker.Stop() runs (lines 155, 162-164): no tick is pending any more.
SweeperExit ==
    /\ sweeper = "waiting"
    /\ stopChan
    /\ sweeper' = "exited"
    /\ nextSweep' = 0
    /\ UNCHANGED <<cache, lruList, stopChan, nconn, cpc, chost, ccert,
                   useOrder, evicted>>
    /\ UNCHANGED <<now, coordVars, serverVars, relayVars, logVars, caVars, guardVars>>

\* Time passes in the cache world, when no handler and no sweeper can take
\* a step.
CacheTick ==
    /\ now < CacheHorizon
    /\ InLookup = {}
    /\ mu = MuIdle
    /\ stopPc # "waiting" \/ sweeper # "exited"
    /\ ~(sweeper = "waiting" /\ (stopChan \/ now >= nextSweep))
    /\ now' = now + 1
    /\ UNCHANGED <<coordVars, serverVars, relayVars, cacheVars, logVars, caVars, guardVars>>

\* -------------------------------------------------- the guard c.mu
\* The operations of the cache step by step: the call blocks in Lock (or
\* RLock), obtains the guard, runs its body and releases the guard on
\* return (defer c.mu.Unlock()).

\* sync.RWMutex.Lock called by task t.
Lock(t) == mu' = [mu EXCEPT !.q = @ \cup {t}]

\* sync.RWMutex.Unlock by the holder.
Unlock_Never == mu' = mu

Unlock == mu' = [mu EXCEPT !.w = 0]

\* Lock returns in task t: nobody holds the guard.
Acquire(t) ==
    /\ t \in mu.q
    /\ mu.w = 0
    /\ mu.r = {}
    /\ mu' = [mu EXCEPT !.w = t, !.q = @ \ {t}]
    /\ UNCHANGED <<cacheVars, stopPc, stop2>>
    /\ UNCHANGED <<now, coordVars, serverVars, relayVars, logVars, caVars>>

\* HandleCONNECT line 95: handler c calls Get(h) and blocks in Lock.
GetCall(c, h) ==
    /\ cpc[c] = "idle"
    /\ c \notin mu.q \cup {mu.w}
    /\ \A x \in Clients : (cpc[x] = "idle" /\ x \notin mu.q \cup {mu.w}) => c <= x
    /\ nconn < MaxCalls
    /\ h \in NextHosts
    /\ nconn' = nconn + 1
    /\ chost' = [chost EXCEPT ![c] = h]
    /\ Lock(c)
    /\ UNCHANGED <<cache, lruList, stopChan, sweeper, nextSweep, cpc, ccert,
                   useOrder, evicted, stopPc, stop2>>
    /\ UNCHANGED <<now, coordVars, serverVars, relayVars, logVars, caVars>>

\* Get lines 69-84 and the deferred Unlock.
GetReturn(c) ==
    /\ cpc[c] = "idle"
    /\ mu.w = c
    /\ Get(c, chost[c])
    /\ Unlock
    /\ UNCHANGED <<stopChan, sweeper, nextSweep, nconn, chost, evicted, stopPc, stop2>>
    /\ UNCHANGED <<now, coordVars, serverVars, relayVars, logVars, caVars>>

\* HandleCONNECT line 107: handler c calls Put and blocks in Lock.
PutCall(c) ==
    /\ cpc[c] = "put"
    /\ c \notin mu.q \cup {mu.w}
    /\ Lock(c)
    /\ UNCHANGED <<cacheVars, stopPc, stop2>>
    /\ UNCHANGED <<now, coordVars, serverVars, relayVars, logVars, caVars>>

\* Put lines 95-119 and the deferred Unlock.
PutReturn(c) ==
    /\ cpc[c] = "put"
    /\ mu.w = c
    /\ Put(c)
    /\ Unlock
    /\ UNCHANGED <<stopChan, sweeper, nextSweep, nconn, chost, ccert, stopPc, stop2>>
    /\ UNCHANGED <<now, coordVars, serverVars, relayVars, logVars, caVars>>

\* cleanupExpired lines 160-161, performCleanup line 171: the sweeper takes
\* the tick and blocks in Lock.
SweepCall ==
    /\ sweeper = "waiting"
    /\ now >= nextSweep
    /\ sweeper' = "sweeping"
    /\ nextSweep' = nextSweep + CleanupInterval
    /\ Lock(Sweeper)
    /\ UNCHANGED <<cache, lruList, stopChan, nconn, cpc, chost, ccert,
                   useOrder, evicted, stopPc, stop2>>
    /\ UNCHANGED <<now, coordVars, serverVars, relayVars, logVars, caVars>>

\* performCleanup lines 174-194 and the deferred Unlock; the sweeper is back
\* at its select.
SweepReturn ==
    /\ sweeper = "sweeping"
    /\ mu.w = Sweeper
    /\ Cleanup
    /\ sweeper' = "waiting"
    /\ Unlock
    /\ UNCHANGED <<stopChan, nextSweep, nconn, cpc, chost, ccert, evicted, stopPc, stop2>>
    /\ UNCHANGED <<now, coordVars, serverVars, relayVars, logVars, caVars>>

\* Size line 138: c.mu.RLock() is called.
SizeCall ==
    /\ Sizer \notin mu.rq \cup mu.r
    /\ mu' = [mu EXCEPT !.rq = @ \cup {Sizer}]
    /\ UNCHANGED <<cacheVars, stopPc, stop2>>
    /\ UNCHANGED <<now, coordVars, serverVars, relayVars, logVars, caVars>>

\* RLock returns: no writer holds the guard and none is blocked in Lock.
SizeAcquire ==
    /\ Sizer \in mu.rq
    /\ mu.w = 0
    /\ mu.q = {}
    /\ mu' = [mu EXCEPT !.r = @ \cup {Sizer}, !.rq = @ \ {Sizer}]
    /\ UNCHANGED <<cacheVars, stopPc, stop2>>
    /\ UNCHANGED <<now, coordVars, serverVars, relayVars, logVars, caVars>>

\* Size lines 139-140: len(c.cache) is read and the deferred RUnlock runs.
SizeReturn ==
    /\ Sizer \in mu.r
    /\ mu' = [mu EXCEPT !.r = @ \ {Sizer}]
    /\ UNCHANGED <<cacheVars, stopPc, stop2>>
    /\ UNCHANGED <<now, coordVars, serverVars, relayVars, logVars, caVars>>

\* ===================================================================
\*                              Logger
\* ===================================================================

\* ------------------------------------------------------------------ bounds
MaxTail    == 2   \* bytes of a text after its padding
MaxRecords == 2   \* records written to the sink in one run

\* ------------------------------------------------------- program constants
maxHostnameLen == 253   \* const maxHostnameLen in sanitizeHostname

\* Texts are sequences of bytes.  TAB, LF, CR, ESC, space, 'a', DEL and a
\* byte that is not valid UTF-8.
TAB == 9
LF  == 10
CR  == 13
SP  == 32
DEL == 127
Bytes == {TAB, LF, CR, 27, SP, 97, DEL, 255}
RuneError == <<239, 191, 189>>   \* U+FFFD as strings.Builder.WriteRune encodes it

\* n bytes 'a'.
Pad(n) == [i \in 1..n |-> 97]

\* Byte strings of at most n bytes.
RECURSIVE Tails(_)
Tails(n) == IF n = 0 THEN {<<>>}
            ELSE Tails(n - 1) \cup {Append(t, b) : t \in {x \in Tails(n - 1) : Len(x) = n - 1}, b \in Bytes}

\* Texts a client can make the proxy handle: a decoded request path holds
\* any bytes; a host name that passed the HTTP parser holds no controls.
ClientTexts == {Pad(n) \o t : n \in {0, maxHostnameLen - 1, maxHostnameLen},
                              t \in Tails(MaxTail)}
ClientPaths == Tails(MaxTail)
ClientHosts == {<<97>>, <<97, 97>>, Pad(maxHostnameLen + 1)}

\* strings.ReplaceAll(s, old, "") and strings.ReplaceAll(s, old, new) for
\* one-byte strings.
RemoveAll(s, old) == SelectSeq(s, LAMBDA b : b # old)
ReplaceAll(s, old, new) == [i \in 1..Len(s) |-> IF s[i] = old THEN new ELSE s[i]]

\* The loop of sanitizeHostname lines 272-277: range decodes runes, an
\* invalid byte decodes to U+FFFD, and WriteRune encodes what is kept.
WriteRune(ch) == IF ch > DEL THEN RuneError
                 ELSE IF ch >= 32 /\ ch # DEL THEN <<ch>>
                 ELSE <<>>

RECURSIVE WriteRunes(_)
WriteRunes(s) ==
    IF s = <<>> THEN <<>>
    ELSE IF Len(s) = 1 THEN WriteRune(s[1])
    ELSE LET half == Len(s) \div 2 IN
         WriteRunes(SubSeq(s, 1, half)) \o WriteRunes(SubSeq(s, half + 1, Len(s)))

\* sanitizeHostname lines 265-288.
sanitizeHostname(hostname) ==
    LET h1 == RemoveAll(hostname, LF)
        h2 == RemoveAll(h1, CR)
        h3 == ReplaceAll(h2, TAB, SP)
        result == WriteRunes(h3)
    IN IF Len(result) > maxHostnameLen THEN SubSeq(result, 1, maxHostnameLen)
                                       ELSE result

NotRun == <<0>>

\* Nothing was logged yet.
LogInit ==
    /\ sink = <<>>
    /\ sanIn = <<>>
    /\ sanOut = NotRun

\* FormatLogEntry lines 291-295: the hostname field of the entry.
FormatLogEntry ==
    /\ sanOut = NotRun
    /\ sanOut' = sanitizeHostname(sanIn)
    /\ UNCHANGED <<sink, sanIn>>
    /\ UNCHANGED <<now, coordVars, serverVars, relayVars, cacheVars, caVars, guardVars>>

\* log.Printf of one record whose client-derived field is text.
Emit(op, text) ==
    /\ Len(sink) < MaxRecords
    /\ sink' = Append(sink, [op |-> op, text |-> text])
    /\ UNCHANGED <<sanIn, sanOut>>
    /\ UNCHANGED <<now, coordVars, serverVars, relayVars, cacheVars, caVars, guardVars>>

\* Logger.LogRequest lines 237-244, called with the target host at
\* part_004:45 and mitm.go:249, 331, 393.
LogRequest(hostname) == Emit("request", sanitizeHostname(hostname))

\* Logger.LogCertGeneration lines 257-260.
LogCertGeneration(hostname) == Emit("cert", sanitizeHostname(hostname))

\* Logger.LogInfo lines 247-249; at mitm.go:181 the message holds the method,
\* the host and the decoded path of the client's request.
LogInfo(message) == Emit("info", message)

\* Logger.LogError lines 252-254; the context of the call sites of mitm.go
\* and part_004:40 holds the target host.
LogError(context) == Emit("error", context)

\* CA.GenerateCertificate line 151: log.Printf with the hostname of the
\* CONNECT target.
LogLeafGeneration(hostname) == Emit("leaf", hostname)

\* ===================================================================
\*                    Root CA and leaf certificate keys
\* ===================================================================

MinRSABits == 2048   \* validateKeyStrength: key.N.BitLen() < 2048 is refused
P256       == 256    \* elliptic.P256(), by the size of its field

\* A private key: its algorithm and, for RSA, the bit length of the modulus,
\* for ECDSA the field size of the curve (P-224, P-256, P-384, P-521).
NoKey == [alg |-> "none", size |-> 0]
RSAKeys   == {[alg |-> "rsa", size |-> n] :
                  n \in {MinRSABits \div 2, MinRSABits - 1, MinRSABits, 2 * MinRSABits}}
ECDSAKeys == {[alg |-> "ecdsa", size |-> n] : n \in {224, P256, 384, 521}}

\* A key file: the type of its first PEM block ("" when pem.Decode finds
\* none) and the bytes of the block, as an encoding of a key.
NoKeyFile == [block |-> "", enc |-> "junk", key |-> NoKey]
KeyFiles ==
    {[block |-> b, enc |-> d[1], key |-> d[2]] :
        b \in {"", "RSA PRIVATE KEY", "EC PRIVATE KEY", "PRIVATE KEY",
               "ENCRYPTED PRIVATE KEY"},
        d \in ({"pkcs1"} \X RSAKeys) \cup ({"sec1"} \X ECDSAKeys) \cup
              ({"pkcs8"} \X (RSAKeys \cup ECDSAKeys \cup
                             {[alg |-> "ed25519", size |-> P256]})) \cup
              {<<"junk", NoKey>>}}

\* What initializeCA finds at the two paths, and the -ca-key-type flag.
NoFiles == [cert |-> "absent", key |-> NoKeyFile, flag |-> "rsa"]
CAInputs ==
    {[cert |-> c, key |-> k, flag |-> "rsa"] :
        c \in {"ok", "nopem", "wrongtype", "badder"}, k \in KeyFiles} \cup
    {[cert |-> "absent", key |-> NoKeyFile, flag |-> f] : f \in {"rsa", "ecdsa", "dsa"}}

\* Before initializeCA, with the files of ins on disk.
CAInit(ins) ==
    /\ caIn \in ins
    /\ caPc = "init"
    /\ rootCA = NoKey
    /\ leafKey = NoKey

\* LoadFromPEM lines 194-213: the parser chosen by the block type, applied to
\* the bytes; NoKey stands for the error return.
ParsePrivateKey(f) ==
    CASE f.block = "RSA PRIVATE KEY" -> IF f.enc = "pkcs1" THEN f.key ELSE NoKey
      [] f.block = "EC PRIVATE KEY"  -> IF f.enc = "sec1" THEN f.key ELSE NoKey
      [] f.block = "PRIVATE KEY"     -> IF f.enc = "pkcs8" THEN f.key ELSE NoKey
      [] OTHER                       -> NoKey

\* validateKeyStrength lines 242-258: TRUE for the nil return.
validateKeyStrength_Any(privateKey) == TRUE

validateKeyStrength(privateKey) ==
    CASE privateKey.alg = "rsa"   -> privateKey.size >= MinRSABits
      [] privateKey.alg = "ecdsa" -> privateKey.size = P256
      [] OTHER                    -> FALSE

\* LoadFromPEM lines 163-232: the key of the CA returned, NoKey for an error.
LoadFromPEM(in) ==
    LET privateKey == ParsePrivateKey(in.key) IN
    IF in.cert = "ok" /\ privateKey # NoKey /\ validateKeyStrength(privateKey)
      THEN privateKey ELSE NoKey

\* The switch on keyType of GenerateCA (lines 36-51) and of
\* GenerateCertificate (lines 39-55): the fresh key, NoKey for the error.
NewKey(keyType) ==
    CASE keyType = "rsa"   -> [alg |-> "rsa", size |-> MinRSABits]
      [] keyType = "ecdsa" -> [alg |-> "ecdsa", size |-> P256]
      [] OTHER             -> NoKey

\* initializeCA: load when both files exist, else generate with the flag and
\* save (SaveToPEM can fail).
initializeCA ==
    /\ caPc = "init"
    /\ \E k \in IF caIn.cert # "absent" THEN {LoadFromPEM(caIn)}
                                         ELSE {NewKey(caIn.flag), NoKey} :
          /\ rootCA' = k
          /\ caPc' = IF k = NoKey THEN "failed" ELSE "ready"
    /\ UNCHANGED <<caIn, leafKey>>
    /\ UNCHANGED <<now, coordVars, serverVars, relayVars, cacheVars, logVars, guardVars>>

\* HandleCONNECT line 99 on a cache miss: m.ca.GenerateCertificate(host, "rsa").
GenerateLeaf ==
    /\ caPc = "ready"
    /\ leafKey = NoKey
    /\ leafKey' = NewKey("rsa")
    /\ UNCHANGED <<caIn, caPc, rootCA>>
    /\ UNCHANGED <<now, coordVars, serverVars, relayVars, cacheVars, logVars, guardVars>>

\* ===================================================================
\*                          Specifications
\* ===================================================================

\* The relay world at rest (no connection is followed in the other worlds).
RelayIdleInit  == RelayInit /\ mitmEnabled = TRUE

\* The shutdown world: the program as src/ has it.  No handler calls
\* TrackConnection, so the registry stays empty, the waiter closes done as
\* soon as it runs and the grace timer of Shutdown never expires.
Init ==
    /\ now = 0
    /\ CoordInit
    /\ ServerInit
    /\ RelayIdleInit
    /\ CacheInit
    /\ CAInit({NoFiles})
    /\ LogInit

Next ==
    \/ StartBegin
    \/ StartCreateServer
    \/ StartListen
    \/ StartServeReturn
    \/ \E h \in Handlers : Accept(h)
    \/ \E h \in Handlers : HTTPHandlerStep(h)
    \/ \E h \in Handlers : CONNECTHandlerStep(h)
    \/ ProxyServerShutdownCheck
    \/ ProxyServerShutdownSpawn
    \/ ProxyServerShutdownDrain
    \/ ProxyServerShutdownReturn
    \/ ServerShutdownCloseListener
    \/ ServerShutdownReturn
    \/ CoordSetShuttingDown
    \/ CoordCancel
    \/ CoordStartDrain
    \/ WaiterCloseDone
    \/ CoordDrained
    \/ CoordTimeout
    \/ CoordForceLock
    \/ CoordForceClose
    \/ CoordGraceDrained
    \/ Tick

Spec == Init /\ [][Next]_vars

\* The coordinator alone.
NextCoord ==
    \/ CoordShutdownCall
    \/ \E c \in Conns : TrackConnectionLock(c)
    \/ \E c \in Conns : TrackConnection(c)
    \/ \E c \in Conns : UntrackConnectionLock(c)
    \/ \E c \in Conns : UntrackConnection(c)
    \/ CoordSetShuttingDown
    \/ CoordCancel
    \/ CoordStartDrain
    \/ WaiterCloseDone
    \/ CoordDrained
    \/ CoordTimeout
    \/ CoordForceLock
    \/ CoordForceClose
    \/ CoordGraceDrained
    \/ CoordGraceTimeout
    \/ Tick

SpecCoord == Init /\ [][NextCoord]_vars

\* ProxyServer.Shutdown on a serving server whose coordinator is also used
\* through TrackConnection / UntrackConnection.
InitDrain ==
    /\ now = 0
    /\ CoordInit
    /\ RelayIdleInit
    /\ CacheInit
    /\ CAInit({NoFiles})
    /\ LogInit
    /\ running = TRUE
    /\ serverSet = TRUE
    /\ startPc = "serving"
    /\ startResult = "none"
    /\ listener = "open"
    /\ inShutdown = FALSE
    /\ psPc = "idle"
    /\ psTimeout = 0
    /\ psCallTime = 0
    /\ psResult = "none"
    /\ ctxDeadline = -1
    /\ ctxCancelled = FALSE
    /\ srvPc = "none"
    /\ srvResult = "none"
    /\ crashed = FALSE
    /\ hkind = [h \in Handlers |-> "none"]
    /\ hpc = [h \in Handlers |-> "none"]
    /\ inflightAtCall = {}

NextDrain ==
    \/ ProxyServerShutdownCheck
    \/ ProxyServerShutdownSpawn
    \/ ProxyServerShutdownDrain
    \/ ProxyServerShutdownReturn
    \/ ServerShutdownCloseListener
    \/ ServerShutdownReturn
    \/ StartServeReturn
    \/ \E c \in Conns : TrackConnectionLock(c)
    \/ \E c \in Conns : TrackConnection(c)
    \/ \E c \in Conns : UntrackConnectionLock(c)
    \/ \E c \in Conns : UntrackConnection(c)
    \/ CoordSetShuttingDown
    \/ CoordCancel
    \/ CoordStartDrain
    \/ WaiterCloseDone
    \/ CoordDrained
    \/ CoordTimeout
    \/ CoordForceLock
    \/ CoordForceClose
    \/ CoordGraceDrained
    \/ CoordGraceTimeout
    \/ Tick

SpecDrain == InitDrain /\ [][NextDrain]_vars

\* One connection, with a shutdown arriving at any moment.
InitRelay ==
    /\ now = 0
    /\ CoordInit
    /\ ServerInit
    /\ RelayInit
    /\ CacheInit
    /\ CAInit({NoFiles})
    /\ LogInit

NextRelay ==
    \/ handleHTTP
    \/ HTTPForward
    \/ HTTPCopy
    \/ Write200
    \/ CertReady
    \/ ClientHandshake
    \/ UpstreamDial
    \/ ReadFirstRequest
    \/ WriteUpstream
    \/ ReadResponse
    \/ WriteResponse
    \/ KeepAliveRead
    \/ KeepAliveWrite
    \/ KeepAliveReadResponse
    \/ KeepAliveWriteResponse
    \/ WSWriteUpgrade
    \/ WSReadResponse
    \/ WSWriteResponse
    \/ WSCopyEnd
    \/ WSCopyBroken
    \/ WSCopySignal
    \/ WSTunnelClosed
    \/ RelayShutdownCall
    \/ CoordSetShuttingDown
    \/ CoordCancel
    \/ CoordStartDrain
    \/ WaiterCloseDone
    \/ CoordDrained

SpecRelay == InitRelay /\ [][NextRelay]_vars

\* The scheduling the Go runtime gives the tunnel of a connection:
\* a Read on a closed transport returns, a send on a channel with room and a
\* receive from a channel with a value complete.  That a peer ever reaches
\* EOF (WSCopyEnd) is not assumed.
FairTunnel ==
    /\ WF_vars(WSCopyBroken)
    /\ WF_vars(WSCopySignal)
    /\ WF_vars(WSTunnelClosed)

\* One CONNECT followed from its acceptance to the WebSocket tunnel its first
\* request opens and to the end of that tunnel; the relay of ordinary
\* requests, which never leads to a tunnel, is left out.
NextTunnel ==
    \/ handleHTTP
    \/ Write200
    \/ CertReady
    \/ ClientHandshake
    \/ UpstreamDial
    \/ ReadFirstRequest
    \/ WSWriteUpgrade
    \/ WSReadResponse
    \/ WSWriteResponse
    \/ WSCopyEnd
    \/ WSCopyBroken
    \/ WSCopySignal
    \/ WSTunnelClosed

SpecTunnel == InitRelay /\ [][NextTunnel]_vars /\ FairTunnel

\* The certificate cache with its sweeper, used by concurrent CONNECT
\* handlers (HandleCONNECT lines 95-108) and stopped at any moment.
NextCache ==
    \/ \E c \in Clients, h \in Hosts : CacheGet(c, h)
    \/ \E c \in Clients : GenerateCertificate(c)
    \/ \E c \in Clients : CachePut(c)
    \/ \E c \in Clients : ServeWithCert(c)
    \/ PerformCleanup
    \/ Stop
    \/ SweeperExit
    \/ StopReturn
    \/ CacheTick

SpecCache == Init /\ [][NextCache]_vars

\* The sweeper next to a single CONNECT handler.  The ticker keeps firing
\* and the sweeper goroutine keeps being scheduled (weak fairness of the
\* sweep); time passes.
NextSweep ==
    \/ \E h \in Hosts : CacheGet(1, h)
    \/ GenerateCertificate(1)
    \/ CachePut(1)
    \/ ServeWithCert(1)
    \/ PerformCleanup
    \/ Stop
    \/ SweeperExit
    \/ StopReturn
    \/ CacheTick

SpecSweep ==
    Init /\ [][NextSweep]_vars /\ WF_vars(PerformCleanup) /\ WF_vars(CacheTick)

\* The same cache when its owner stops it more than once.
NextStop ==
    \/ \E h \in Hosts : CacheGet(1, h)
    \/ GenerateCertificate(1)
    \/ CachePut(1)
    \/ ServeWithCert(1)
    \/ PerformCleanup
    \/ Stop
    \/ StopAgain
    \/ SweeperExit
    \/ StopReturn
    \/ CacheTick

SpecStop == Init /\ [][NextStop]_vars

\* The cache with its guard: two CONNECT handlers asking for the same
\* hostname, a caller of Size, the sweeper and Stop, each operation in the
\* steps call, guard obtained, return.
NextGuard ==
    \/ \E c \in GuardClients : GetCall(c, HostNames[1])
    \/ \E c \in GuardClients : GetReturn(c)
    \/ \E c \in GuardClients : GenerateCertificate(c)
    \/ \E c \in GuardClients : PutCall(c)
    \/ \E c \in GuardClients : PutReturn(c)
    \/ \E c \in GuardClients : ServeWithCert(c)
    \/ \E t \in Writers : Acquire(t)
    \/ SweepCall
    \/ SweepReturn
    \/ SizeCall
    \/ SizeAcquire
    \/ SizeReturn
    \/ Stop
    \/ SweeperExit
    \/ StopReturn
    \/ CacheTick

\* The Go runtime keeps running every goroutine that can run (weak fairness
\* of the steps that need no guard), sync.RWMutex hands the guard to every
\* blocked caller in turn (starvation mode of the mutex, writers before new
\* readers: strong fairness of obtaining it), and select chooses uniformly
\* among its ready cases (strong fairness of the stop case).
FairGuard ==
    /\ \A c \in GuardClients :
          /\ WF_vars(GetReturn(c)) /\ WF_vars(PutReturn(c))
          /\ WF_vars(PutCall(c)) /\ WF_vars(ServeWithCert(c))
          /\ WF_vars(GenerateCertificate(c))
    /\ \A t \in Writers : SF_vars(Acquire(t))
    /\ WF_vars(SweepCall) /\ WF_vars(SweepReturn)
    /\ SF_vars(SizeAcquire) /\ WF_vars(SizeReturn)
    /\ SF_vars(SweeperExit) /\ WF_vars(StopReturn)

SpecGuard == Init /\ [][NextGuard]_vars /\ FairGuard

\* The logging operations, called with the texts their call sites build from
\* the client's request.
NextLog ==
    \/ \E h \in ClientHosts : LogRequest(h)
    \/ \E h \in ClientHosts : LogCertGeneration(h)
    \/ \E p \in ClientPaths : LogInfo(p)
    \/ \E h \in ClientHosts : LogError(h)
    \/ \E h \in ClientHosts : LogLeafGeneration(h)

SpecLog == Init /\ [][NextLog]_vars

\* The sanitizer applied to any text.
InitSanitize ==
    /\ now = 0
    /\ CoordInit
    /\ ServerInit
    /\ RelayIdleInit
    /\ CacheInit
    /\ CAInit({NoFiles})
    /\ sink = <<>>
    /\ sanIn \in ClientTexts
    /\ sanOut = NotRun

NextSanitize == FormatLogEntry

SpecSanitize == InitSanitize /\ [][NextSanitize]_vars


\* initializeCA on any CA files or flag, then the first leaf certificate.
InitCA ==
    /\ now = 0
    /\ CoordInit
    /\ ServerInit
    /\ RelayIdleInit
    /\ CacheInit
    /\ LogInit
    /\ CAInit(CAInputs)

NextCA == initializeCA \/ GenerateLeaf

SpecCA == InitCA /\ [][NextCA]_vars


\* ===================================================================
\*                              Claims
\* ===================================================================

\* Positions of the connection handler in which it is blocked in a network
\* operation.
BlockingOps ==
    {"http_do", "http_copy", "write200", "handshake", "dial", "m_read",
     "m_write", "m_readresp", "m_writeresp", "k_read", "k_write",
     "k_readresp", "k_writeresp", "ws_write", "ws_readresp", "ws_writeresp",
     "ws_tunnel"}

\* Path of the request written upstream last.
LastPath == fwd[Len(fwd)][2]

\* C1: when ProxyServer.Shutdown(timeout) has returned normally, every
\* handler that was in flight at the call has finished, or at least
\* timeout seconds have passed since the call.
C1_ShutdownWaitsForInFlight ==
    (psPc = "returned" /\ psResult = "nil")
        => \/ \A h \in inflightAtCall : hpc[h] = "done"
           \/ now - psCallTime >= psTimeout

\* C2: once the coordinator's token is cancelled, a handler that leaves a
\* blocking network operation leaves it by returning.
C2_HandlersHonorCancellation ==
    [][(cancelled /\ pc \in BlockingOps /\ pc' # pc) => pc' = "returned"]_vars

\* C3: after ProxyServer.Shutdown has returned normally, the accept loop
\* hands no new connection to a handler.
C3_NoAcceptAfterShutdown ==
    [][(psPc = "returned" /\ psResult = "nil")
          => \A h \in Handlers : hpc[h] = "none" => hpc'[h] = "none"]_vars

\* C4: ShutdownCoordinator.Shutdown(t) is over at the latest t + 1s after it
\* was entered (code runs before the clock moves, so a call that is not over
\* is never past that instant), and whoever holds the registry lock is
\* about to release it.
C4_CoordShutdownReturnsInTime ==
    /\ scPc \notin {"idle", "returned"}
          => now <= scCallTime + scTimeout + GraceSeconds
    /\ (scPc # "idle" /\ now > scCallTime + scTimeout + GraceSeconds)
          => scPc = "returned"
    /\ connMu \in Conns => rpc[connMu] \in {"locking", "unlocking"}
    /\ connMu = MuShutdown => scPc = "forcing"

\* C4 witness: a Shutdown with a positive timeout used all of t + 1s and
\* returned with handlers still registered.
C4_Witness ==
    /\ scPc = "returned"
    /\ scResult = "err"
    /\ scTimeout > 0
    /\ wg > 0
    /\ now = scCallTime + scTimeout + GraceSeconds

\* C5: when the coordinator gave up with handlers still registered after the
\* timeout, the force-close and the grace, ProxyServer.Shutdown returns an
\* error.
C5_ShutdownReportsDrainOverflow ==
    (psPc = "returned" /\ scResult = "err" /\ wg > 0) => psResult = "err"

\* C6: every request written upstream carries X-Proxied-By: GoSniffer.
C6_ForwardedCarriesProxyHeader ==
    fwd # <<>> => lastFwd[ProxyHeaderName] = ProxyHeaderValue

C8_AbortWithoutPlaintext ==
    /\ (certState = "failed" \/ clientTLS = "failed")
          => /\ pc = "returned"
             /\ upstream = "none"
             /\ fwd = <<>>
             /\ nRead = 0
             /\ nRespWritten = 0
    /\ upstream # "none" => (clientTLS = "ok" /\ certState \in {"hit", "minted"})

\* C8 witness: the client handshake failed on a freshly minted certificate.
C8_Witness ==
    /\ certState = "minted"
    /\ clientTLS = "failed"
    /\ pc = "returned"

C10_RelaySerialized ==
    /\ \A i \in 1..Len(fwd) : fwd[i][1] = i
    /\ Len(fwd) <= nRead \/ (fwd # <<>> /\ LastPath = "http")
    /\ nRead <= nRespWritten + 1
    /\ pc \in {"m_read", "k_read"} => nRead = nRespWritten

\* C10 witness: the third request of a connection is being forwarded after
\* two complete exchanges.
C10_Witness ==
    /\ nRead = 3
    /\ nRespWritten = 2
    /\ Len(fwd) = 3
    /\ pc = "k_readresp"


\* ------------------------------------------------------------ cache claims

\* Hostnames that have an entry.
Keys == {h \in Hosts : cache[h] # NoBundle}

\* Age of the entry of h.
Age(h) == now - cache[h].createdAt

\* Handler c finishes a cache lookup / a cache insertion in this step.
GetBy(c) == cpc[c] = "idle" /\ cpc'[c] # "idle"
PutBy(c) == cpc[c] = "put" /\ cpc'[c] = "ready"

\* C11: in every reachable state of the certificate cache, under any
\* interleaving of get, put and sweeper wake-ups, the number of entries (of
\* the map and of the LRU list) is at most maxSize.
C11_SizeAtMostMax == Size <= maxSize /\ Len(lruList) <= maxSize

\* C11 witness: the cache is full after an insertion that evicted an entry.
C11_Witness == Size = maxSize /\ \E c \in Clients : evicted[c] # NoHost

\* C12 as stated: under any interleaving of get, put, sweeper wake-ups and
\* stop, no stored entry's age exceeds ttl + cleanupInterval.
C12_AgeBounded == \A h \in Keys : Age(h) <= ttl + CleanupInterval

\* C12 amended: as long as stop has not been called, no stored entry's age
\* exceeds ttl + cleanupInterval.
C12_AgeBoundedWhileSweeping ==
    ~stopChan => \A h \in Keys : Age(h) <= ttl + CleanupInterval

\* C12 witness: the sweeper runs and an entry has reached the age
\* ttl + cleanupInterval.
C12_Witness ==
    /\ ~stopChan
    /\ \E h \in Keys : Age(h) = ttl + CleanupInterval

\* C13: get(hostname) never returns a bundle older than ttl: when the stored
\* entry is older than ttl, get removes it and returns none; otherwise it
\* returns the stored bundle and makes the hostname the most recently used;
\* with the sweeper running or not.
C13_GetHonoursTTL ==
    [][\A c \in Clients : GetBy(c) =>
         LET h == chost'[c] IN
         IF h \in Keys /\ Age(h) <= ttl
           THEN /\ ccert'[c] = cache[h]
                /\ cpc'[c] = "ready"
                /\ cache' = cache
                /\ lruList' # <<>>
                /\ lruList'[Len(lruList')] = h
           ELSE /\ ccert'[c] = NoBundle
                /\ cpc'[c] = "mint"
                /\ cache'[h] = NoBundle
                /\ \A i \in 1..Len(lruList') : lruList'[i] # h]_vars

\* C13 witness: with the sweeper gone, a get has returned a bundle built
\* earlier, at the age of exactly ttl, and moved its hostname behind a more
\* recently inserted one.
C13_Witness ==
    \E c \in Clients :
        /\ sweeper = "exited"
        /\ cpc[c] = "ready"
        /\ ccert[c] = cache[chost[c]]
        /\ now - ccert[c].createdAt = ttl
        /\ Len(lruList) = 2
        /\ lruList[2] = chost[c]
        /\ cache[lruList[1]].createdAt > ccert[c].createdAt

C15_EvictsLeastRecentlyUsed ==
    [][\A c \in Clients : (PutBy(c) /\ chost[c] \notin Keys /\ Size = maxSize) =>
         LET h == chost[c]
             victim == Head(useOrder)
         IN
         /\ cache'[victim] = NoBundle
         /\ cache'[h] = ccert[c]
         /\ \A x \in Hosts \ {victim, h} : cache'[x] = cache[x]
         /\ evicted'[c] = victim]_vars

\* C15 witness: the insertion of c into the full cache has evicted b and
\* kept a, whose bundle is older than that of c.
C15_Witness ==
    \E c \in Clients :
        /\ cpc[c] = "ready" /\ chost[c] = "c" /\ evicted[c] = "b"
        /\ lruList = <<"a", "c">>
        /\ cache["a"].createdAt < cache["c"].createdAt

\* C16: when several CONNECT requests for the same hostname arrive while no
\* certificate for it is cached, all of them are served with the same leaf
\* certificate bundle: two handlers that missed for the same hostname and
\* are both about to insert hold the same bundle.
C16_SameBundleForConcurrentConnects ==
    \A c1, c2 \in Clients :
        (/\ cpc[c1] = "put" /\ cpc[c2] = "put"
         /\ chost[c1] = chost[c2]) => ccert[c1] = ccert[c2]

\* ------------------------------------------------------ error and log claims

\* C17: the plain-HTTP handler answers 502 when the upstream transport
\* fails, 504 when the upstream deadline expires and 500 when the upstream
\* request cannot be constructed.
C17_DistinctErrorStatuses ==
    (pc = "returned" /\ upErr # "none") =>
        proxyStatus = CASE upErr = "construct" -> 500
                        [] upErr = "timeout"   -> 504
                        [] OTHER               -> 502

\* C18: every request for which an upstream response status was obtained
\* has produced exactly one request log record with that status by the time
\* the handler returns, whatever happened while the response was relayed.
C18_OneLogRecordPerStatus == pc = "returned" => reqLog = obtained

\* ASCII control characters: codes 0-31 and 127.
IsControl(b) == b \in 0..31 \/ b = DEL

\* C19: every client-derived field that reaches the log sink, through any
\* logging operation, went through the sanitizer: no emitted record contains
\* CR, LF or another ASCII control character.
C19_NoControlInSink ==
    \A i \in 1..Len(sink) : \A j \in 1..Len(sink[i].text) :
        ~IsControl(sink[i].text[j])

\* s without its control characters, cut to its first n bytes.
Stripped(s, n) ==
    LET kept == SelectSeq(s, LAMBDA b : ~IsControl(b))
    IN IF Len(kept) > n THEN SubSeq(kept, 1, n) ELSE kept

\* C20: sanitize(s) equals s with every CR, LF, TAB and other ASCII control
\* character removed, truncated to its first 253 bytes.
C20_SanitizeRemovesAndTruncates ==
    sanOut # NotRun => sanOut = Stripped(sanIn, maxHostnameLen)

\* ------------------------------------------------------------- CA claims

\* C21: whenever the MITM engine mints on a cache miss, the leaf key belongs
\* to the same algorithm family (RSA or ECDSA) as the root CA key, for both
\* CA key types.
C21_LeafKeyOfCAFamily == leafKey # NoKey => leafKey.alg = rootCA.alg

\* C22: load returns an error and no CA whenever the key file holds an RSA
\* key shorter than 2048 bits, an ECDSA key on a curve other than P-256, a
\* PKCS#8 key of any other variant, a PEM block of an unknown type or
\* undecodable PEM; it returns a CA only for a key that passes the strength
\* check.
C22_LoadRefusesWeakKeys ==
    LET f == caIn.key
        refused ==
            \/ f.block \notin {"RSA PRIVATE KEY", "EC PRIVATE KEY", "PRIVATE KEY"}
            \/ f.key.alg = "rsa" /\ f.key.size < 2048
            \/ f.key.alg = "ecdsa" /\ f.key.size # 256
            \/ f.enc = "pkcs8" /\ f.key.alg \notin {"rsa", "ecdsa"}
    IN (caPc # "init" /\ caIn.cert # "absent") =>
          /\ refused => (caPc = "failed" /\ rootCA = NoKey)
          /\ caPc = "ready" =>
                /\ rootCA = f.key
                /\ \/ rootCA.alg = "rsa" /\ rootCA.size >= 2048
                   \/ rootCA.alg = "ecdsa" /\ rootCA.size = 256

\* C22 witness: load has refused a PKCS#1 RSA key of 2047 bits that came
\* with a good certificate.
C22_Witness ==
    /\ caPc = "failed"
    /\ caIn.cert = "ok"
    /\ caIn.key = [block |-> "RSA PRIVATE KEY", enc |-> "pkcs1",
                   key |-> [alg |-> "rsa", size |-> 2047]]

\* C23: until shutdown begins, the coordinator's registry holds as many
\* transports as there are connection handlers executing.
C23_RegistryCountsHandlers ==
    (psPc = "idle" /\ ~shuttingDown)
        => GetActiveConnectionCount = Cardinality(InFlight)

\* The step in which ShutdownCoordinator.Shutdown returns.
CoordReturns == scPc # "returned" /\ scPc' = "returned"

\* C24 as stated: Shutdown returns an error exactly when the drain counter
\* is non-zero once the timeout, the force-close and the grace are over.
C24_ErrorIffCounterNonZero ==
    [][CoordReturns
         => (scResult' = "err"
               <=> (scPc = "select2" /\ now >= scTimer /\ wg > 0))]_vars

\* C24 amended: Shutdown returns ok only on the done signal, and an error
\* only from the second select at the instant timeout + 1s after the call;
\* a return without the done signal is an error, and a return before that
\* instant is ok.  With done closed at that very instant either may happen.
C24_ErrorOnlyAfterGrace ==
    [][CoordReturns
         => /\ scResult' \in {"nil", "err"}
            /\ scResult' = "nil" => done
            /\ scResult' = "err"
                 => /\ scPc = "select2"
                    /\ now = scCallTime + scTimeout + GraceSeconds
            /\ ~done => scResult' = "err"
            /\ now < scCallTime + scTimeout + GraceSeconds
                 => scResult' = "nil"]_vars

\* C24 witness: an error although the waiter had closed done (the counter
\* reached zero at the instant the grace expired).
C24_Witness ==
    /\ scPc = "returned"
    /\ scResult = "err"
    /\ done
    /\ wg = 0
    /\ closedConns # {}

\* C25 as stated: every transport that is in the registry when the drain
\* timer fires has been closed by the coordinator when Shutdown returns,
\* and a Shutdown whose drain completed in time has closed none.
C25_ClosesAllRegisteredAtTimeout ==
    [][CoordReturns
         => /\ atTimeout \subseteq closedConns
            /\ scPc = "select1" => closedConns = {}]_vars

\* C25 amended: the force-close closes exactly the transports that are in
\* the registry when the coordinator holds the registry lock; a transport
\* registered when the timer fired is, at the return, closed, or already
\* deregistered by its own handler, or was displaced by a registration
\* under the same connID; a Shutdown that returns from the first select has
\* closed none.
C25_ClosesRegistryUnderLock ==
    [][/\ (scPc = "forcing" /\ scPc' # "forcing")
            => /\ closedConns' = {connections[id] :
                                    id \in {i \in ConnIDs : connections[i] # NoConn}}
               /\ connections' = connections
       /\ closedConns' # closedConns => scPc = "forcing"
       /\ CoordReturns
            => /\ \A c \in atTimeout :
                    \/ c \in closedConns
                    \/ rpc[c] = "exited"
                    \/ \E d \in Conns \ {c} :
                          connAddr[d] = connAddr[c] /\ rpc[d] \notin {"idle", "locking"}
               /\ scPc = "select1" => closedConns = {}]_vars

\* C25 witness: Shutdown returned after a force-close that closed one
\* transport, while another one, registered when the timer fired, had
\* deregistered before the coordinator took the lock.
C25_Witness ==
    /\ scPc = "returned"
    /\ \E c \in atTimeout : c \notin closedConns /\ rpc[c] = "exited"
    /\ \E c \in atTimeout : c \in closedConns

\* C26: once the coordinator is marked as shutting down, no transport is
\* added to the registry (its content only shrinks).
C26_NoTrackAfterShutdown ==
    [][shuttingDown
         => \A id \in ConnIDs :
               connections'[id] # NoConn => connections'[id] = connections[id]]_vars

\* C27: the LRU list holds exactly the hostnames that are keys of the map,
\* each once, and the element an entry points to carries the entry's own
\* hostname.
C27_ListMatchesMap ==
    /\ {lruList[i] : i \in 1..Len(lruList)} = Keys
    /\ Len(lruList) = Cardinality(Keys)
    /\ \A h \in Keys : lruList[ElementOf(lruList, h)] = h

\* C27 witness: a full cache after a sweep and an eviction, the handler that
\* evicted still holding its bundle.
C27_Witness ==
    /\ Len(lruList) = maxSize
    /\ nextSweep > CleanupInterval
    /\ \E c \in Clients :
          /\ cpc[c] = "ready"
          /\ evicted[c] # NoHost
          /\ lruList[Len(lruList)] = chost[c]

\* C28: while the sweeper runs, a sweep takes place at every multiple of
\* CleanupInterval, on time, and removes exactly the entries older than
\* ttl; so an entry older than ttl is eventually gone without any get or
\* put (unless stop is called first).
C28_SweeperRemovesExpired ==
    /\ [][(sweeper' = "waiting" /\ nextSweep' # nextSweep)
            => /\ now = nextSweep
               /\ nextSweep' = nextSweep + CleanupInterval
               /\ \A h \in Hosts :
                     cache'[h] = IF cache[h] # NoBundle /\ now - cache[h].createdAt > ttl
                                   THEN NoBundle
                                   ELSE cache[h]]_vars
    /\ \A h \in Hosts :
          (cache[h] # NoBundle /\ now - cache[h].createdAt > ttl /\ ~stopChan)
             ~> (cache[h] = NoBundle \/ stopChan)

\* C28 witness: after the sweep at ttl + CleanupInterval, the first hostname,
\* stored at instant 0 and not used since, is gone and a younger entry was
\* kept.
C28_Witness ==
    /\ now = ttl + CleanupInterval
    /\ nextSweep = now + CleanupInterval
    /\ ~stopChan
    /\ nconn = 2
    /\ cpc[1] = "idle"
    /\ cache["a"] = NoBundle
    /\ cache["b"] # NoBundle
    /\ cache["b"].createdAt > 0

\* C29: Stop returns only when the sweeper goroutine has exited, no sweep
\* starts once Stop has returned, and a Stop that was called does return,
\* whatever the sweeper and the handlers are doing when it is called.
C29_StopWaitsForSweeper ==
    /\ [](stopPc = "returned" => sweeper = "exited")
    /\ [][stopPc = "returned"
            => /\ sweeper' = "exited"
               /\ Sweeper \notin mu'.q \cup {mu'.w}
               /\ nextSweep' = nextSweep]_vars
    /\ (stopPc = "waiting") ~> (stopPc = "returned" /\ sweeper = "exited")

\* C29 witness: Stop was called and waits while the sweeper is inside
\* performCleanup holding the guard and a handler is blocked in Lock.
C29_Witness ==
    /\ stopPc = "waiting"
    /\ sweeper = "sweeping"
    /\ mu.w = Sweeper
    /\ mu.q \cap GuardClients # {}

\* C30: the guard has one writer or readers only, whoever holds it is not
\* waiting for anything (its next step, the return that releases the guard,
\* can be taken), a caller leaves Lock or RLock only by obtaining the guard,
\* and every caller that is blocked in Lock or RLock or holds the guard gets
\* to the end of its operation, the guard released.
C30_GuardNeverDeadlocks ==
    /\ [](/\ mu.w # 0 => mu.r = {}
          /\ mu.w \notin mu.q
          /\ mu.r \cap mu.rq = {}
          /\ \A c \in GuardClients :
                mu.w = c => ENABLED (GetReturn(c) \/ PutReturn(c))
          /\ mu.w = Sweeper => ENABLED SweepReturn
          /\ Sizer \in mu.r => ENABLED SizeReturn)
    /\ [][/\ \A t \in Writers : (t \in mu.q /\ t \notin mu'.q) => mu'.w = t
          /\ (Sizer \in mu.rq /\ Sizer \notin mu'.rq) => Sizer \in mu'.r]_vars
    /\ \A t \in Writers : (t \in mu.q \/ mu.w = t) ~> (t \notin mu.q /\ mu.w # t)
    /\ (Sizer \in mu.rq \cup mu.r) ~> (Sizer \notin mu.rq \cup mu.r)

\* C30 witness: a handler holds the guard inside Put while another handler
\* and the sweeper are blocked in Lock, Size is blocked in RLock and Stop
\* waits for the sweeper.
C30_Witness ==
    /\ \E c \in GuardClients : mu.w = c /\ cpc[c] = "put"
    /\ Sweeper \in mu.q
    /\ mu.q \cap GuardClients # {}
    /\ Sizer \in mu.rq
    /\ stopPc = "waiting"

\* C31: a WebSocket upgrade read by the keep-alive loop is handled like one
\* read first: it is handed to the upstream writer as the client sent it and
\* the handler goes on to handleWebSocketUpgrade (or returns), never to the
\* ordinary relay of the loop.
C31_KeepAliveUpgradeTunnels ==
    [][(pc = "k_read" /\ nRead' = nRead + 1 /\ isWebSocketUpgrade(curRaw'))
          => (cur' = curRaw' /\ pc' \in {"ws_write", "returned"})]_vars

\* C32: a WebSocket tunnel runs exactly two copy tasks, one per direction;
\* once either has ended the handler returns with both transports closed
\* and the other copy task ends and delivers its signal too, so that in the
\* end both tasks are done.
C32_TunnelTeardown ==
    /\ []((copyUp = "none") = (copyDown = "none"))
    /\ [](pc = "ws_tunnel" => (copyUp # "none" /\ copyDown # "none"))
    /\ []((pc = "returned" /\ copyUp # "none")
             => (clientConn = "closed" /\ upstreamConn = "closed"))
    /\ (copyUp \in {"ended", "done"} \/ copyDown \in {"ended", "done"})
          ~> (/\ pc = "returned"
              /\ clientConn = "closed" /\ upstreamConn = "closed"
              /\ copyUp = "done" /\ copyDown = "done")

\* C32 witness: the client-to-upstream copy ended and signalled, the handler
\* returned and closed both transports, and the other copy task is still in
\* its Read on the closed upstream transport.
C32_Witness ==
    /\ pc = "returned"
    /\ copyUp = "done"
    /\ copyDown = "running"
    /\ wsDone = 0
    /\ clientConn = "closed"
    /\ upstreamConn = "closed"

\* C33: for a CONNECT to host:port, every record the MITM handler logs that
\* names the target names the host without the port.
C33_LogNamesHostWithoutPort ==
    Len(rHost) = 2 =>
        \A i \in 1..Len(mitmLog) : mitmLog[i][2] \in {NoTarget, <<rHost[1]>>}

\* C34: a client handshake that failed because the client disconnected
\* leaves no error record; one that failed for another reason leaves
\* exactly one.
C34_QuietClientDisconnect ==
    [][(pc = "handshake" /\ clientTLS' = "failed")
          => mitmLog' = IF hsErr' \in ClientDisconnects
                          THEN mitmLog
                          ELSE Append(mitmLog, ErrorRecord(<<rHost[1]>>))]_vars

\* The CONNECT handler hijacked the client transport: it had a target and
\* answered with no status of its own.
Hijacked == rHost # NoTarget /\ proxyStatus = 0

\* C38: a hijacked client transport is open while the CONNECT handler runs
\* and closed once it has returned, on every path; so is the upstream
\* transport from the moment it was dialled; a transport that was never
\* opened is never touched.
C38_NoTransportOpenAfterReturn ==
    /\ clientConn = (IF ~Hijacked THEN "none"
                     ELSE IF pc = "returned" THEN "closed" ELSE "open")
    /\ upstreamConn = (IF upstream \in {"none", "failed"} THEN "none"
                       ELSE IF pc = "returned" THEN "closed" ELSE "open")

\* C38 witness: the handler returned from the keep-alive loop after relaying
\* two requests, and both transports are closed.
C38_Witness ==
    /\ pc = "returned"
    /\ nRespWritten = 2
    /\ copyUp = "none"
    /\ clientConn = "closed"
    /\ upstreamConn = "closed"

\* C35: as long as only TrackConnection and UntrackConnection have run, the
\* drain counter equals the number of registry entries and is not negative.
C35_CounterMatchesRegistry ==
    (scPc = "idle" /\ connMu = MuFree)
        => (wg = GetActiveConnectionCount /\ wg >= 0)

\* C36: when ProxyServer.Shutdown has passed its 'running' check, Start has
\* already created the http.Server.
C36_ShutdownSeesServer ==
    psPc = "checked" => serverSet

\* C37: once Start has returned because the listener failed, and no
\* Shutdown has run, the 'running' flag is false again.
C37_NotRunningAfterFailedStart ==
    (startPc = "returned" /\ startResult = "err" /\ listener = "none"
        /\ psPc = "idle")
        => ~running

C39_StopTwiceIsNoOp == stop2 # "panicked"

====
